---------------------------- MODULE Spec2Model ----------------------------
(***************************************************************************)
(* A model of FinChat's query routing core (src/core/query_router.py), the *)
(* calculators it calls (src/agents/calculator.py) and the profile store   *)
(* it reads (src/agents/user_profile.py).                                  *)
(*                                                                         *)
(* Queries are strings.  The detectors are translated at the level of the  *)
(* characters of the query: Python's  `kw in q`  is a substring test and   *)
(* every  re.search  is run by a small backtracking matcher that follows   *)
(* Python's rules (leftmost match, greedy repetition, ordered              *)
(* alternation, capture groups).                                           *)
(***************************************************************************)
EXTENDS Integers, Sequences, FiniteSets, TLC

-----------------------------------------------------------------------------
(* Configuration: src/config.py                                            *)

SIP_MIN_AMOUNT == 100
SIP_MAX_AMOUNT == 1000000
SIP_MIN_YEARS == 1
SIP_MAX_YEARS == 50
EMI_MIN_LOAN == 50000
EMI_MAX_LOAN == 100000000
EMI_MIN_INTEREST == 1
EMI_MAX_INTEREST == 30
EMI_MIN_TENURE == 1
EMI_MAX_TENURE == 30
MIN_AGE == 18
MAX_AGE == 80
MIN_RETIREMENT_AGE == 30
MAX_RETIREMENT_AGE == 100
MIN_INVESTMENT == 1000
MAX_INVESTMENT == 100000000
MIN_MONTHLY_EXPENSE == 1000
MAX_MONTHLY_EXPENSE == 1000000
MF_TOP_FUNDS_LIMIT == 10
DEFAULT_POST_RET_YEARS == 25
STOCK_CACHE_EXPIRY == 300
NEGATIVE_CACHE_EXPIRY == 3600
NSE_MAX_RETRIES == 2

-----------------------------------------------------------------------------
(* Decimal numbers.  A Python float that the program reads from a decimal  *)
(* literal is kept as the exact fraction num/den, den a power of ten.      *)

SetMax(S) == CHOOSE x \in S : \A y \in S : y <= x
SetMin(S) == CHOOSE x \in S : \A y \in S : x <= y

Dec(n, d) == [num |-> n, den |-> d]
DecOfInt(n) == Dec(n, 1)
DecLeq(a, b) == a.num * b.den <= b.num * a.den
DecLess(a, b) == a.num * b.den < b.num * a.den
DecEq(a, b) == a.num * b.den = b.num * a.den
\* int(x): truncation of a non-negative number
DecToInt(a) == a.num \div a.den

RECURSIVE Pow2(_)
Pow2(n) == IF n = 0 THEN 1 ELSE 2 * Pow2(n - 1)
RECURSIVE Pow2Mod(_, _)
Pow2Mod(n, m) == IF n = 0 THEN 1 % m ELSE (2 * Pow2Mod(n - 1, m)) % m

\* floor(log2(num/den)) of a positive fraction
FloorLog2(num, den) ==
    IF num >= den THEN SetMax({j \in 0..30 : Pow2(j) <= num \div den})
    ELSE 0 - SetMin({s \in 1..30 : Pow2(s) >= (den + num - 1) \div num})

\* int(x * k) for the float x read from the decimal a and the integer k > 0, as
\* IEEE double arithmetic computes it.  The double nearest to a is a + delta with
\* delta = -r / (den * 2^e) when it was rounded down, e = 52 - floor(log2 a) and
\* r = num * 2^e mod den; the product, rounded to 53 bits, is below the exact
\* integer product N exactly when the error k * delta exceeds half a unit in the
\* last place of N, and the truncation then gives N - 1.  (Products stay below
\* 2^31; den is at most 100 with k up to 10^7.)
FloatTimesToInt(a, k) ==
    LET product == (a.num % a.den) * k
        N == (a.num \div a.den) * k + product \div a.den
        below(j, r, top) ==
            /\ 0 < 2 * r /\ 2 * r < a.den
            /\ 2 * r * k * (IF N = Pow2(top) THEN 2 ELSE 1) > Pow2(top - j) * a.den
        rounded(j) ==
            IF below(j, ((a.num % a.den) * Pow2Mod(52 - j, a.den)) % a.den, FloorLog2(N, 1))
            THEN N - 1 ELSE N
    IN  IF a.num % a.den = 0 THEN (a.num \div a.den) * k
        ELSE IF product % a.den # 0 \/ N = 0 THEN N
        ELSE rounded(FloorLog2(a.num, a.den))

DEFAULT_SIP_RETURN == Dec(12, 100)
DEFAULT_EMI_INTEREST == Dec(85, 10)
DEFAULT_INFLATION == Dec(6, 100)
DEFAULT_POST_RET_RETURN == Dec(4, 100)

-----------------------------------------------------------------------------
(* Strings                                                                 *)

Ch(s, i) == SubSeq(s, i, i)

UpperAlphabet == "ABCDEFGHIJKLMNOPQRSTUVWXYZ"
LowerAlphabet == "abcdefghijklmnopqrstuvwxyz"
DigitChars == "0123456789"

CharsOf(s) == {Ch(s, i) : i \in 1..Len(s)}
IndexIn(s, c) == CHOOSE i \in 1..Len(s) : Ch(s, i) = c

UpperChars == CharsOf(UpperAlphabet)
DigitSet == CharsOf(DigitChars)
\* the characters Python's \w matches, among those the model's queries use
WordChars == UpperChars \cup CharsOf(LowerAlphabet) \cup DigitSet \cup {"_"}
\* the characters Python's \s matches
SpaceChars == {" ", "\t", "\n"}

IsDigit(c) == c \in DigitSet
IsSpace(c) == c \in SpaceChars
IsWordChar(c) == c \in WordChars
DigitVal(c) == IndexIn(DigitChars, c) - 1

LowerChar(c) ==
    IF c \in UpperChars THEN Ch(LowerAlphabet, IndexIn(UpperAlphabet, c)) ELSE c

\* str.lower()
RECURSIVE Lower(_)
Lower(s) ==
    IF Len(s) = 0 THEN ""
    ELSE IF Len(s) = 1 THEN LowerChar(s)
    ELSE Lower(SubSeq(s, 1, Len(s) \div 2)) \o Lower(SubSeq(s, Len(s) \div 2 + 1, Len(s)))

StartsWithAt(s, pos, k) ==
    /\ pos + Len(k) - 1 <= Len(s)
    /\ SubSeq(s, pos, pos + Len(k) - 1) = k

\* Python's  k in s
Contains(s, k) == \E i \in 1..(Len(s) - Len(k) + 1) : StartsWithAt(s, i, k)

\* any(kw in s for kw in kws)
ContainsAny(s, kws) == \E i \in 1..Len(kws) : Contains(s, kws[i])


\* int() of a string of digits
RECURSIVE ParseInt(_)
ParseInt(s) ==
    IF Len(s) = 0 THEN 0
    ELSE ParseInt(SubSeq(s, 1, Len(s) - 1)) * 10 + DigitVal(Ch(s, Len(s)))

RECURSIVE Pow10(_)
Pow10(n) == IF n = 0 THEN 1 ELSE 10 * Pow10(n - 1)

\* float() of a string  d+  or  d+.d+
ParseDec(s) ==
    IF Contains(s, ".")
    THEN LET dot == SetMin({i \in 1..Len(s) : Ch(s, i) = "."})
             ip == SubSeq(s, 1, dot - 1)
             fp == SubSeq(s, dot + 1, Len(s))
         IN  Dec(ParseInt(ip) * Pow10(Len(fp)) + ParseInt(fp), Pow10(Len(fp)))
    ELSE DecOfInt(ParseInt(s))

-----------------------------------------------------------------------------
(* Regular expressions: a pattern is a sequence of items, matched the way  *)
(* Python's re module matches it.                                          *)

Lit(x) == [t |-> "lit", s |-> x]
\* a character class repeated lo..hi times, greedily; hi = -1: no upper limit
Rep(cls, lo, hi) == [t |-> "rep", c |-> cls, lo |-> lo, hi |-> hi]
\* (?:r)?
Opt(r) == [t |-> "opt", r |-> r]
\* (?:a1|a2|...), each alternative a pattern
Alt(alts) == [t |-> "alt", a |-> alts]
\* \b
WordB == [t |-> "wb"]
\* the parentheses of capture group g
Open(g) == [t |-> "open", g |-> g]
Close(g) == [t |-> "close", g |-> g]

Digits1 == Rep("d", 1, -1)
Spaces0 == Rep("s", 0, -1)
Spaces1 == Rep("s", 1, -1)
\* (\d+(?:\.\d+)?) as group g
NumberGroup(g) == <<Open(g), Digits1, Opt(<<Lit("."), Digits1>>), Close(g)>>
\* (w1|w2|...) of literal words as group g
WordGroup(g, ws) == <<Open(g), Alt([i \in 1..Len(ws) |-> <<Lit(ws[i])>>]), Close(g)>>

InClass(cls, c) == IF cls = "d" THEN IsDigit(c) ELSE IsSpace(c)

\* how many characters of class cls follow from pos, counting at most hi
RECURSIVE RunLen(_, _, _, _)
RunLen(s, pos, cls, hi) ==
    IF hi = 0 \/ pos > Len(s) \/ ~InClass(cls, Ch(s, pos)) THEN 0
    ELSE 1 + RunLen(s, pos + 1, cls, IF hi < 0 THEN hi ELSE hi - 1)

IsBoundary(s, pos) ==
    LET before == pos > 1 /\ IsWordChar(Ch(s, pos - 1))
        after == pos <= Len(s) /\ IsWordChar(Ch(s, pos))
    IN  before # after

NoCaps == [g \in 1..2 |-> <<0, 0>>]
NoMatch == [ok |-> FALSE, end |-> 0, caps |-> NoCaps]

\* the first way, in Python's order of preference, to match items at pos:
\* a repetition takes as many characters as the rest of the pattern allows, an
\* optional group is tried before its absence, alternatives in their order
RECURSIVE MatchHere(_, _, _, _), MatchRep(_, _, _, _, _, _), MatchAlt(_, _, _, _, _, _)
MatchHere(items, s, pos, caps) ==
    IF Len(items) = 0 THEN [ok |-> TRUE, end |-> pos, caps |-> caps]
    ELSE LET it == Head(items)
             rest == Tail(items)
         IN  CASE it.t = "lit" ->
                    IF StartsWithAt(s, pos, it.s)
                    THEN MatchHere(rest, s, pos + Len(it.s), caps)
                    ELSE NoMatch
               [] it.t = "rep" ->
                    MatchRep(rest, s, pos, caps, it.lo, RunLen(s, pos, it.c, it.hi))
               [] it.t = "opt" ->
                    LET with == MatchHere(it.r \o rest, s, pos, caps)
                    IN  IF with.ok THEN with ELSE MatchHere(rest, s, pos, caps)
               [] it.t = "alt" ->
                    MatchAlt(it.a, rest, s, pos, caps, 1)
               [] it.t = "wb" ->
                    IF IsBoundary(s, pos) THEN MatchHere(rest, s, pos, caps) ELSE NoMatch
               [] it.t = "eos" ->
                    IF pos = Len(s) + 1 \/ (pos = Len(s) /\ Ch(s, pos) = "\n")
                    THEN MatchHere(rest, s, pos, caps)
                    ELSE NoMatch
               [] it.t = "open" ->
                    MatchHere(rest, s, pos, [caps EXCEPT ![it.g] = <<pos, 0>>])
               [] it.t = "close" ->
                    MatchHere(rest, s, pos, [caps EXCEPT ![it.g] = <<caps[it.g][1], pos>>])

\* the repetition takes n characters, or fewer (not fewer than lo)
MatchRep(rest, s, pos, caps, lo, n) ==
    IF n < lo THEN NoMatch
    ELSE LET r == MatchHere(rest, s, pos + n, caps)
         IN  IF r.ok THEN r ELSE MatchRep(rest, s, pos, caps, lo, n - 1)

\* alternative i, or a later one
MatchAlt(alts, rest, s, pos, caps, i) ==
    IF i > Len(alts) THEN NoMatch
    ELSE LET r == MatchHere(alts[i] \o rest, s, pos, caps)
         IN  IF r.ok THEN r ELSE MatchAlt(alts, rest, s, pos, caps, i + 1)

\* the first item of a pattern that takes characters, when every match has to
\* begin with it: a literal or a repetition of at least one character
RECURSIVE FirstItem(_)
FirstItem(items) ==
    IF Len(items) = 0 THEN [t |-> "any"]
    ELSE IF Head(items).t \in {"wb", "open"} THEN FirstItem(Tail(items))
    ELSE IF Head(items).t = "lit" \/ (Head(items).t = "rep" /\ Head(items).lo > 0) THEN Head(items)
    ELSE [t |-> "any"]

\* whether a match can begin at pos
CanStart(first, s, pos) ==
    CASE first.t = "lit" -> StartsWithAt(s, pos, first.s)
      [] first.t = "rep" -> pos <= Len(s) /\ InClass(first.c, Ch(s, pos))
      [] OTHER -> TRUE

\* the match that starts at pos, or at the first later position that has one
RECURSIVE SearchFrom(_, _, _, _)
SearchFrom(pattern, first, s, pos) ==
    LET found(r) == IF r.ok THEN r ELSE SearchFrom(pattern, first, s, pos + 1)
    IN  IF pos > Len(s) + 1 THEN NoMatch
        ELSE IF ~CanStart(first, s, pos) THEN SearchFrom(pattern, first, s, pos + 1)
        ELSE found(MatchHere(pattern, s, pos, NoCaps))

\* re.search(pattern, s)
Search(pattern, s) == SearchFrom(pattern, FirstItem(pattern), s, 1)

\* s.strip()
strip(s) ==
    LET kept == {i \in 1..Len(s) : ~IsSpace(Ch(s, i))}
    IN  IF kept = {} THEN "" ELSE SubSeq(s, SetMin(kept), SetMax(kept))

\* for pattern in patterns: s = re.sub(pattern, '', s), followed by .strip() when
\* stripped; done is what re.sub has put out for the pattern at hand and pos where it
\* goes on in s; no pattern used matches the empty string
RECURSIVE re_sub(_, _, _, _, _)
re_sub(patterns, done, s, pos, stripped) ==
    LET next(out) == re_sub(Tail(patterns), "", IF stripped THEN strip(out) ELSE out, 1, stripped)
        removed(m) ==
            IF ~m.ok THEN next(done \o SubSeq(s, pos, Len(s)))
            ELSE re_sub(patterns, done \o SubSeq(s, pos, m.caps[1][1] - 1), s, m.end, stripped)
    IN  IF Len(patterns) = 0 THEN s
        ELSE removed(SearchFrom(<<Open(1)>> \o Head(patterns), FirstItem(Head(patterns)),
                                s, pos))

\* m.group(g) or ""
Group(m, s, g) ==
    IF m.caps[g][2] = 0 THEN "" ELSE SubSeq(s, m.caps[g][1], m.caps[g][2] - 1)

-----------------------------------------------------------------------------
(* Python values                                                           *)

\* None, as a detector's or load_profile's result
None == [none |-> TRUE]
\* {}
EmptyDict == [k \in {} |-> 0]
\* d.get(k, default)
DictGet(d, k, default) == IF k \in DOMAIN d THEN d[k] ELSE default
\* isinstance(v, (int, float)): the model's incomes are integers
IsNumber(v) == v \in Int

Action(name, params) == [action |-> name, parameters |-> params]

\* a detector's return value together with the profile cache it leaves
Ret(result, cache) == [result |-> result, cache |-> cache]

\* the amount of  val unit  as the EMI, retirement and portfolio extractors
\* compute it; unit is m.group(2) or ""
UnitAmount(val, unit) ==
    IF Contains(unit, "lakh") THEN FloatTimesToInt(val, 100000)
    ELSE IF Contains(unit, "crore") \/ Contains(unit, "cr") THEN FloatTimesToInt(val, 10000000)
    ELSE IF Contains(unit, "k") THEN FloatTimesToInt(val, 1000)
    ELSE DecToInt(val)

-----------------------------------------------------------------------------
(* QueryRouter: the profile cache                                          *)

\* UserProfileManager.load_profile: the stored profile or None
load_profile(store, user_id) == store[user_id]

\* a history that is never cut
add_conversation_unbounded(profile, question, answer, timestamp) ==
    IF profile # None /\ DOMAIN profile # {}
    THEN [profile EXCEPT !.conversation_history =
              Append(@, [timestamp |-> timestamp, question |-> question, answer |-> answer])]
    ELSE profile

\* what add_conversation leaves stored for the user, profile being what load_profile
\* returned: the profile with the entry appended and the last 50 entries kept, or
\* what was there when no profile was loaded
add_conversation(profile, question, answer, timestamp) ==
    LET history == Append(profile.conversation_history,
                          [timestamp |-> timestamp, question |-> question, answer |-> answer])
    IN  IF profile # None /\ DOMAIN profile # {}
        THEN [profile EXCEPT !.conversation_history =
                  IF Len(history) > 50 THEN SubSeq(history, Len(history) - 49, Len(history))
                  ELSE history]
        ELSE profile

\* a router that takes the profile from the store at every call
_get_reloaded_profile(cache, store, user_id) ==
    LET profile_data == load_profile(store, user_id)
        entry == IF profile_data # None THEN profile_data ELSE EmptyDict
    IN  [value |-> entry, cache |-> [u \in DOMAIN cache \cup {user_id} |->
                                        IF u = user_id THEN entry ELSE cache[u]]]

\* a cache that keeps None for a user without a stored profile
_get_cached_profile_keeping_none(cache, store, user_id) ==
    IF user_id \notin DOMAIN cache
    THEN [value |-> store[user_id],
          cache |-> [u \in DOMAIN cache \cup {user_id} |->
                       IF u = user_id THEN store[user_id] ELSE cache[u]]]
    ELSE [value |-> cache[user_id], cache |-> cache]

\* what _get_cached_profile returns, and the cache it leaves
_get_cached_profile(cache, store, user_id) ==
    IF user_id \notin DOMAIN cache
    THEN LET profile_data == load_profile(store, user_id)
             entry == IF profile_data # None THEN profile_data ELSE EmptyDict
         IN  [value |-> entry, cache |-> [u \in DOMAIN cache \cup {user_id} |->
                                             IF u = user_id THEN entry ELSE cache[u]]]
    ELSE [value |-> cache[user_id], cache |-> cache]

-----------------------------------------------------------------------------
(* QueryRouter: the nine detectors                                         *)

metric_patterns ==
    << <<WordB, Lit("p/e"), Spaces1, Opt(<<Lit("ratio"), Spaces1>>), Lit("of"), WordB>>,
       <<WordB, Lit("pe"), Spaces1, Opt(<<Lit("ratio"), Spaces1>>), Lit("of"), WordB>>,
       <<WordB, Lit("p"), Spaces1, Lit("e"), Spaces1, Opt(<<Lit("ratio"), Spaces1>>), Lit("of"), WordB>>,
       <<WordB, Lit("dividend"), Spaces1, Lit("yield"), Spaces1, Lit("of"), WordB>>,
       <<WordB, Lit("yield"), Spaces1, Lit("of"), WordB>>,
       <<WordB, Lit("p/e"), Spaces1, Lit("ratio"), WordB>>,
       <<WordB, Lit("pe"), Spaces1, Lit("ratio"), WordB>>,
       <<WordB, Lit("dividend"), Spaces1, Lit("yield"), WordB>> >>

metric_exclusions == <<"mutual fund", "fund", "best", "top">>

_detect_stock_metric(query) ==
    LET q == Lower(query)
    IN  IF (\E i \in 1..Len(metric_patterns) : Search(metric_patterns[i], q).ok)
           /\ ~ContainsAny(q, metric_exclusions)
        THEN Action("get_stock_metric", [query |-> query])
        ELSE None

stock_keywords == <<"stock", "price", "share", "trading", "quote", "market cap">>

\* a price detector that excludes nothing
no_stock_exclusions == <<>>

stock_exclusions ==
    <<"mutual fund", "nav", "sip", "emi", "portfolio", "best", "top", "etf", "bees",
      "fund", "p/e", "pe ratio", "dividend yield">>

_detect_stock_price(query) ==
    LET q == Lower(query)
    IN  IF ContainsAny(q, stock_keywords) /\ ~ContainsAny(q, stock_exclusions)
        THEN Action("get_stock_price", [query |-> query])
        ELSE None

_detect_etf(query) ==
    LET q == Lower(query)
    IN  IF Contains(q, "etf") \/ Contains(q, "bees") \/ Contains(q, "index fund")
        THEN Action("get_etf_price", [query |-> query])
        ELSE None

_detect_mf_nav(query) ==
    LET q == Lower(query)
    IN  IF (Contains(q, "nav") \/ (Contains(q, "mutual fund") /\ Contains(q, "price")))
           /\ ~ContainsAny(q, <<"best", "top", "good", "recommend">>)
        THEN Action("search_mutual_fund", [query |-> query])
        ELSE None

category_keywords == <<"best", "top", "good", "show", "recommend">>

fund_types ==
    <<"large cap", "mid cap", "small cap", "elss", "equity", "debt", "hybrid",
      "mutual fund", "balanced">>

\* a category resolution that tries the categories in the opposite order
fund_category_reversed(q) ==
    IF Contains(q, "hybrid") \/ Contains(q, "balanced") THEN "hybrid"
    ELSE IF Contains(q, "debt") \/ Contains(q, "bond") THEN "debt"
    ELSE IF Contains(q, "elss") \/ Contains(q, "tax saver") THEN "elss"
    ELSE IF Contains(q, "small cap") \/ Contains(q, "smallcap") THEN "small cap"
    ELSE IF Contains(q, "mid cap") \/ Contains(q, "midcap") THEN "mid cap"
    ELSE IF Contains(q, "large cap") \/ Contains(q, "largecap") THEN "large cap"
    ELSE "equity"

fund_category(q) ==
    IF Contains(q, "large cap") \/ Contains(q, "largecap") THEN "large cap"
    ELSE IF Contains(q, "mid cap") \/ Contains(q, "midcap") THEN "mid cap"
    ELSE IF Contains(q, "small cap") \/ Contains(q, "smallcap") THEN "small cap"
    ELSE IF Contains(q, "elss") \/ Contains(q, "tax saver") THEN "elss"
    ELSE IF Contains(q, "debt") \/ Contains(q, "bond") THEN "debt"
    ELSE IF Contains(q, "hybrid") \/ Contains(q, "balanced") THEN "hybrid"
    ELSE "equity"

_detect_fund_category(query) ==
    LET q == Lower(query)
    IN  IF ContainsAny(q, category_keywords) /\ ContainsAny(q, fund_types)
        THEN Action("get_top_funds", [category |-> fund_category(q), limit |-> MF_TOP_FUNDS_LIMIT])
        ELSE None

\* (\d+(?:\.\d+)?)\s*k\b
sip_k_pattern == NumberGroup(1) \o <<Spaces0, Lit("k"), WordB>>
\* (\d{3,9})
sip_plain_pattern == <<Open(1), Rep("d", 3, 9), Close(1)>>
\* (\d{1,2})\s*(year|years|yrs|y)
sip_years_pattern ==
    <<Open(1), Rep("d", 1, 2), Close(1), Spaces0>> \o WordGroup(2, <<"year", "years", "yrs", "y">>)

\* the amount _detect_sip reads in the query: [found, amount]
sip_query_amount(q) ==
    LET read(m_k, m_plain) ==
            IF m_k.ok
            THEN [found |-> TRUE,
                  amount |-> FloatTimesToInt(ParseDec(Group(m_k, q, 1)), 1000)]
            ELSE IF m_plain.ok
            THEN [found |-> TRUE, amount |-> ParseInt(Group(m_plain, q, 1))]
            ELSE [found |-> FALSE, amount |-> 0]
    IN  read(Search(sip_k_pattern, q), Search(sip_plain_pattern, q))

\* a default that ignores the profile
sip_fixed_default(profile) == 5000

\* the amount _detect_sip takes from the profile when the query has none
sip_default_amount(profile) ==
    LET monthly_income == DictGet(profile, "monthly_income", 0)
    IN  IF IsNumber(monthly_income) /\ monthly_income > 0
        THEN FloatTimesToInt(Dec(20, 100), monthly_income)
        ELSE 5000

\* a validation whose amount bounds are exclusive
sip_validated_exclusive(amount, years, cache1) ==
    IF ~(SIP_MIN_AMOUNT < amount /\ amount < SIP_MAX_AMOUNT) THEN Ret(None, cache1)
    ELSE IF ~(SIP_MIN_YEARS <= years /\ years <= SIP_MAX_YEARS) THEN Ret(None, cache1)
    ELSE Ret(Action("calculate_sip",
                    [monthly_sip |-> amount, years |-> years,
                     expected_return |-> DEFAULT_SIP_RETURN]), cache1)

\* _detect_sip, lines 175-198: the bounds validation and the action
sip_validated(amount, years, cache1) ==
    IF ~(SIP_MIN_AMOUNT <= amount /\ amount <= SIP_MAX_AMOUNT) THEN Ret(None, cache1)
    ELSE IF ~(SIP_MIN_YEARS <= years /\ years <= SIP_MAX_YEARS) THEN Ret(None, cache1)
    ELSE Ret(Action("calculate_sip",
                    [monthly_sip |-> amount, years |-> years,
                     expected_return |-> DEFAULT_SIP_RETURN]), cache1)

_detect_sip(query, user_id, cache, store) ==
    LET \* the profile is read only when the query states no amount
        extracted(q, in_query, got, m_years) ==
            sip_validated(IF in_query.found THEN in_query.amount
                          ELSE sip_default_amount(DictGet(got.value, "profile", EmptyDict)),
                          IF m_years.ok THEN ParseInt(Group(m_years, q, 1)) ELSE 10,
                          IF in_query.found THEN cache ELSE got.cache)
        lowered(q) ==
            IF Contains(q, "sip")
            THEN extracted(q, sip_query_amount(q), _get_cached_profile(cache, store, user_id),
                           Search(sip_years_pattern, q))
            ELSE Ret(None, cache)
    IN  lowered(Lower(query))

\* (\d+(?:\.\d+)?)\s*(lakh|lakhs|crore|cr|k)?
amount_unit_pattern ==
    NumberGroup(1) \o <<Spaces0, Opt(WordGroup(2, <<"lakh", "lakhs", "crore", "cr", "k">>))>>
\* (\d+(?:\.\d+)?)\s*%
percent_pattern == NumberGroup(1) \o <<Spaces0, Lit("%")>>
\* (\d{1,2})\s*(year|years|yrs)
tenure_pattern ==
    <<Open(1), Rep("d", 1, 2), Close(1), Spaces0>> \o WordGroup(2, <<"year", "years", "yrs">>)

\* an action built without validating the bounds
emi_unvalidated(amt, interest, tenure) ==
    Action("calculate_emi",
           [loan_amount |-> amt, interest_rate |-> interest, tenure_years |-> tenure])

\* _detect_emi, lines 220-252: the bounds validation and the action
emi_validated(amt, interest, tenure) ==
    IF ~(EMI_MIN_LOAN <= amt /\ amt <= EMI_MAX_LOAN) THEN None
    ELSE IF ~(DecLeq(DecOfInt(EMI_MIN_INTEREST), interest)
              /\ DecLeq(interest, DecOfInt(EMI_MAX_INTEREST))) THEN None
    ELSE IF ~(EMI_MIN_TENURE <= tenure /\ tenure <= EMI_MAX_TENURE) THEN None
    ELSE Action("calculate_emi",
                [loan_amount |-> amt, interest_rate |-> interest, tenure_years |-> tenure])

_detect_emi(query) ==
    LET extracted(q, m_amt, m_int, m_tenure) ==
            IF ~m_amt.ok THEN None
            ELSE emi_validated(
                     UnitAmount(ParseDec(Group(m_amt, q, 1)), Lower(Group(m_amt, q, 2))),
                     IF m_int.ok THEN ParseDec(Group(m_int, q, 1)) ELSE DEFAULT_EMI_INTEREST,
                     IF m_tenure.ok THEN ParseInt(Group(m_tenure, q, 1)) ELSE 20)
        lowered(q) ==
            IF ContainsAny(q, <<"emi", "loan">>)
            THEN extracted(q, Search(amount_unit_pattern, q), Search(percent_pattern, q),
                           Search(tenure_pattern, q))
            ELSE None
    IN  lowered(Lower(query))

\* (?:age|i am|i\'m)\s*(\d{1,2})
age_pattern ==
    <<Alt(<< <<Lit("age")>>, <<Lit("i am")>>, <<Lit("i'm")>> >>), Spaces0,
      Open(1), Rep("d", 1, 2), Close(1)>>
\* (?:retire\s*at|retirement\s*age)\s*(\d{2})
retirement_age_pattern ==
    <<Alt(<< <<Lit("retire"), Spaces0, Lit("at")>>,
             <<Lit("retirement"), Spaces0, Lit("age")>> >>), Spaces0,
      Open(1), Rep("d", 2, 2), Close(1)>>
\* (?:expense|spend|need)\s*(\d+(?:\.\d+)?)\s*(k|lakh|lakhs|crore|cr)?
expense_pattern ==
    <<Alt(<< <<Lit("expense")>>, <<Lit("spend")>>, <<Lit("need")>> >>), Spaces0>>
    \o NumberGroup(1)
    \o <<Spaces0, Opt(WordGroup(2, <<"k", "lakh", "lakhs", "crore", "cr">>))>>

\* the monthly expense _detect_retirement takes from the profile
retirement_default_expense(profile) ==
    LET monthly_income == DictGet(profile, "monthly_income", 0)
    IN  IF IsNumber(monthly_income) /\ monthly_income > 0
        THEN FloatTimesToInt(Dec(7, 10), monthly_income)
        ELSE 50000

\* _detect_retirement: the bounds validation and the action
retirement_validated(current_age, retirement_age, monthly_expense, cache1) ==
    IF ~(MIN_AGE <= current_age /\ current_age <= MAX_AGE) THEN Ret(None, cache1)
    ELSE IF ~(MIN_RETIREMENT_AGE <= retirement_age
              /\ retirement_age <= MAX_RETIREMENT_AGE) THEN Ret(None, cache1)
    ELSE IF retirement_age <= current_age THEN Ret(None, cache1)
    ELSE IF ~(MIN_MONTHLY_EXPENSE <= monthly_expense
              /\ monthly_expense <= MAX_MONTHLY_EXPENSE) THEN Ret(None, cache1)
    ELSE Ret(Action("calculate_retirement",
                    [current_age |-> current_age, retirement_age |-> retirement_age,
                     monthly_expense |-> monthly_expense]), cache1)

_detect_retirement(query, user_id, cache, store) ==
    LET extracted(q, got, profile, m_age, m_ret, m_exp) ==
            retirement_validated(IF m_age.ok THEN ParseInt(Group(m_age, q, 1)) ELSE DictGet(profile, "age", 30),
                      IF m_ret.ok THEN ParseInt(Group(m_ret, q, 1)) ELSE 60,
                      IF m_exp.ok
                      THEN UnitAmount(ParseDec(Group(m_exp, q, 1)), Lower(Group(m_exp, q, 2)))
                      ELSE retirement_default_expense(profile),
                      got.cache)
        loaded(q, got) ==
            extracted(q, got, DictGet(got.value, "profile", EmptyDict), Search(age_pattern, q),
                      Search(retirement_age_pattern, q), Search(expense_pattern, q))
        lowered(q) ==
            IF Contains(q, "retirement") \/ Contains(q, "corpus") \/ Contains(q, "retire")
            THEN loaded(q, _get_cached_profile(cache, store, user_id))
            ELSE Ret(None, cache)
    IN  lowered(Lower(query))

\* _detect_portfolio: the bounds validation and the action
portfolio_validated(amt, profile, cache1) ==
    IF ~(MIN_INVESTMENT <= amt /\ amt <= MAX_INVESTMENT) THEN Ret(None, cache1)
    ELSE Ret(Action("get_portfolio_recommendation",
                    [age |-> DictGet(profile, "age", 30),
                     risk_appetite |-> DictGet(profile, "risk_appetite", "moderate"),
                     investment_amount |-> amt]), cache1)

_detect_portfolio(query, user_id, cache, store) ==
    LET extracted(q, got, m_amt) ==
            portfolio_validated(IF m_amt.ok
                      THEN UnitAmount(ParseDec(Group(m_amt, q, 1)), Lower(Group(m_amt, q, 2)))
                      ELSE 100000,
                      DictGet(got.value, "profile", EmptyDict), got.cache)
        lowered(q) ==
            IF Contains(q, "portfolio")
               \/ (Contains(q, "invest") /\ ContainsAny(q, <<"i have", "create", "suggest", "build">>))
            THEN extracted(q, _get_cached_profile(cache, store, user_id),
                           Search(amount_unit_pattern, q))
            ELSE Ret(None, cache)
    IN  lowered(Lower(query))

-----------------------------------------------------------------------------
(* QueryRouter._detect_action_with_priority                                *)

\* an order in which the SIP detector is tried before the stock detectors
sip_first_order ==
    <<"_detect_sip", "_detect_stock_metric", "_detect_stock_price", "_detect_etf",
      "_detect_mf_nav", "_detect_fund_category", "_detect_emi", "_detect_retirement",
      "_detect_portfolio">>

\* the detectors in the order the dispatcher tries them
DetectorOrder ==
    <<"_detect_stock_metric", "_detect_stock_price", "_detect_etf", "_detect_mf_nav",
      "_detect_fund_category", "_detect_sip", "_detect_emi", "_detect_retirement",
      "_detect_portfolio">>

\* one detector call the dispatcher made and what it returned
Tried(detector, result) == [detector |-> detector, result |-> result]

\* [result, cache, tried]: what the dispatcher returns, the profile cache it leaves
\* and the detector calls it made, in order
Detection(result, cache, tried) == [result |-> result, cache |-> cache, tried |-> tried]

\* the call of one detector: what it returns and the profile cache it leaves
run_detector(detector, query, user_id, cache, store) ==
    CASE detector = "_detect_stock_metric" -> Ret(_detect_stock_metric(query), cache)
      [] detector = "_detect_stock_price" -> Ret(_detect_stock_price(query), cache)
      [] detector = "_detect_etf" -> Ret(_detect_etf(query), cache)
      [] detector = "_detect_mf_nav" -> Ret(_detect_mf_nav(query), cache)
      [] detector = "_detect_fund_category" -> Ret(_detect_fund_category(query), cache)
      [] detector = "_detect_sip" -> _detect_sip(query, user_id, cache, store)
      [] detector = "_detect_emi" -> Ret(_detect_emi(query), cache)
      [] detector = "_detect_retirement" -> _detect_retirement(query, user_id, cache, store)
      [] detector = "_detect_portfolio" -> _detect_portfolio(query, user_id, cache, store)

\* the dispatcher from its i-th detector on: the first result that is not None is
\* returned, None when there is no detector left
RECURSIVE detect_from(_, _, _, _, _, _)
detect_from(i, tried, query, user_id, cache, store) ==
    LET returned(r, tried1) ==
            IF r.result # None THEN Detection(r.result, r.cache, tried1)
            ELSE detect_from(i + 1, tried1, query, user_id, r.cache, store)
        called(r) == returned(r, Append(tried, Tried(DetectorOrder[i], r.result)))
    IN  IF i > Len(DetectorOrder) THEN Detection(None, cache, tried)
        ELSE called(run_detector(DetectorOrder[i], query, user_id, cache, store))

_detect_action_with_priority(query, user_id, cache, store) ==
    detect_from(1, <<>>, query, user_id, cache, store)

-----------------------------------------------------------------------------
(* FinancialCalculator (src/agents/calculator.py)                          *)

\* an exception leaving a call
Raised(msg) == [exc |-> msg]
IsRaised(r) == "exc" \in DOMAIN r
ErrorPayload(msg) == [error |-> msg]
IsError(data) == "error" \in DOMAIN data

\* floor(base * rate / 12), the interest of one month on base
month_interest(base, rate) ==
    LET d == rate.den * 12
    IN  (base \div d) * rate.num + ((base % d) * rate.num) \div d

\* the balance a month later: the contribution is added and the month's interest paid
month_step(value, monthly_sip, rate) ==
    LET base == value + monthly_sip
    IN  base + month_interest(base, rate)

RECURSIVE compound_months(_, _, _, _)
compound_months(value, monthly_sip, rate, k) ==
    IF k = 0 \/ value < 0 THEN value
    ELSE compound_months(month_step(value, monthly_sip, rate), monthly_sip, rate, k - 1)

\* monthly_sip * (((1+i)^m - 1) / i) * (1+i) for m = 12 * years and i = rate/12, in
\* whole rupees (each month's interest rounded down): the sum of the m
\* contributions, each with its monthly compound interest.  It is computed year by
\* year, as the breakdown loop of sip_returns computes it.
RECURSIVE annuity_due(_, _, _)
annuity_due(monthly_sip, rate, years) ==
    IF years = 0 THEN 0
    ELSE LET previous == annuity_due(monthly_sip, rate, years - 1)
         IN  IF previous < 0 THEN previous
             ELSE compound_months(previous, monthly_sip, rate, 12)

\* the first validation of sip_returns that fails, or "" (messages without the value)
sip_validation(monthly_sip, years, expected_return) ==
    IF monthly_sip <= 0 THEN "Monthly SIP must be positive"
    ELSE IF years <= 0 THEN "Investment years must be positive"
    ELSE IF ~(DecLeq(DecOfInt(0), expected_return) /\ DecLeq(expected_return, DecOfInt(1)))
    THEN "Expected return must be between 0 and 1 (as decimal)"
    ELSE IF years > SIP_MAX_YEARS THEN "Investment period cannot exceed 50 years"
    ELSE ""

sip_returns(monthly_sip, years, expected_return) ==
    LET invalid == sip_validation(monthly_sip, years, expected_return)
        months == years * 12
        total_invested == monthly_sip * months
        maturity_value == annuity_due(monthly_sip, expected_return, years)
    IN  IF invalid # "" THEN ErrorPayload(invalid)
        ELSE IF expected_return.num = 0 THEN Raised("float division by zero")
        ELSE [monthly_sip |-> monthly_sip,
              years |-> years,
              expected_return |-> expected_return,
              total_invested |-> total_invested,
              maturity_amount |-> maturity_value,
              gains |-> maturity_value - total_invested]

\* a validation that lets a loan above the ceiling through
emi_validation_without_ceiling(loan_amount, interest_rate, tenure_years) ==
    IF loan_amount <= 0 THEN "Loan amount must be positive"
    ELSE IF interest_rate.num <= 0 THEN "Interest rate must be positive"
    ELSE IF tenure_years <= 0 THEN "Tenure must be positive"
    ELSE IF DecLess(DecOfInt(EMI_MAX_INTEREST), interest_rate) THEN "Interest rate cannot exceed 30%"
    ELSE IF tenure_years > EMI_MAX_TENURE THEN "Tenure cannot exceed 30 years"
    ELSE ""

emi_validation(loan_amount, interest_rate, tenure_years) ==
    IF loan_amount <= 0 THEN "Loan amount must be positive"
    ELSE IF interest_rate.num <= 0 THEN "Interest rate must be positive"
    ELSE IF tenure_years <= 0 THEN "Tenure must be positive"
    ELSE IF DecLess(DecOfInt(EMI_MAX_INTEREST), interest_rate) THEN "Interest rate cannot exceed 30%"
    ELSE IF tenure_years > EMI_MAX_TENURE THEN "Tenure cannot exceed 30 years"
    ELSE IF loan_amount > EMI_MAX_LOAN THEN "Loan amount cannot exceed 100,000,000"
    ELSE ""

\* the validation of emi_calculator and the inputs its result echoes
emi_calculator(loan_amount, interest_rate, tenure_years) ==
    LET invalid == emi_validation(loan_amount, interest_rate, tenure_years)
    IN  IF invalid # "" THEN ErrorPayload(invalid)
        ELSE [loan_amount |-> loan_amount,
              interest_rate |-> interest_rate,
              tenure_years |-> tenure_years,
              tenure_months |-> tenure_years * 12]

\* the optional arguments of retirement_corpus at their defaults
RetirementDefaults ==
    [inflation |-> DEFAULT_INFLATION, post_retirement_years |-> DEFAULT_POST_RET_YEARS,
     sip_return |-> DEFAULT_SIP_RETURN, post_ret_return |-> DEFAULT_POST_RET_RETURN]

\* _validate_percentage
IsFraction(x) == DecLeq(DecOfInt(0), x) /\ DecLeq(x, DecOfInt(1))

retirement_validation(current_age, retirement_age, monthly_expense, options) ==
    IF ~(0 < current_age /\ current_age < 120) THEN "Current age must be between 0 and 120"
    ELSE IF ~(0 < retirement_age /\ retirement_age < 120) THEN "Retirement age must be between 0 and 120"
    ELSE IF monthly_expense <= 0 THEN "Monthly expense must be positive"
    ELSE IF ~IsFraction(options.inflation)
    THEN "Inflation rate must be between 0 and 1 (as decimal)"
    ELSE IF ~IsFraction(options.sip_return)
    THEN "SIP return rate must be between 0 and 1 (as decimal)"
    ELSE IF ~IsFraction(options.post_ret_return)
    THEN "Post-retirement return rate must be between 0 and 1 (as decimal)"
    ELSE IF retirement_age <= current_age THEN "Retirement age must be greater than current age"
    ELSE IF retirement_age - current_age > 50 THEN "Years to retirement cannot exceed 50"
    ELSE IF options.post_retirement_years > 50 THEN "Post-retirement years cannot exceed 50"
    ELSE ""

\* the validation of retirement_corpus and the inputs its result echoes
retirement_corpus(current_age, retirement_age, monthly_expense, options) ==
    LET invalid == retirement_validation(current_age, retirement_age, monthly_expense, options)
    IN  IF invalid # "" THEN ErrorPayload(invalid)
        ELSE [current_age |-> current_age,
              retirement_age |-> retirement_age,
              years_to_retirement |-> retirement_age - current_age,
              current_monthly_expense |-> monthly_expense,
              post_retirement_years |-> options.post_retirement_years]

-----------------------------------------------------------------------------
(* QueryRouter._execute_action                                             *)

MarketActions ==
    {"get_stock_price", "get_stock_metric", "get_etf_price", "search_mutual_fund",
     "get_top_funds", "get_portfolio_recommendation"}
CalculatorActions == {"calculate_sip", "calculate_emi", "calculate_retirement"}
KnownActions == MarketActions \cup CalculatorActions

\* the collaborator method bound to each action
Collaborator(action) ==
    CASE action = "get_stock_price" -> "market_agent.get_stock_price"
      [] action = "get_stock_metric" -> "market_agent.get_stock_metric"
      [] action = "get_etf_price" -> "market_agent.get_etf_price"
      [] action = "search_mutual_fund" -> "market_agent.search_fund_dynamic"
      [] action = "get_top_funds" -> "market_agent.get_top_funds_by_category"
      [] action = "calculate_sip" -> "calculator.sip_returns"
      [] action = "calculate_emi" -> "calculator.emi_calculator"
      [] action = "calculate_retirement" -> "calculator.retirement_corpus"
      [] action = "get_portfolio_recommendation" -> "market_agent.get_personalized_portfolio"

\* the keys read as parameters[key], in the order the call's arguments are evaluated
RequiredKeys(action) ==
    CASE action \in {"get_stock_price", "get_stock_metric", "get_etf_price", "search_mutual_fund"}
           -> <<"query">>
      [] action = "get_top_funds" -> <<"category">>
      [] action = "calculate_sip" -> <<"monthly_sip", "years">>
      [] action = "calculate_emi" -> <<"loan_amount", "tenure_years">>
      [] action = "calculate_retirement" -> <<"current_age", "retirement_age", "monthly_expense">>
      [] action = "get_portfolio_recommendation" -> <<"age", "risk_appetite", "investment_amount">>

MissingKeys(action, parameters) ==
    {i \in 1..Len(RequiredKeys(action)) : RequiredKeys(action)[i] \notin DOMAIN parameters}

\* what the market-data collaborator does with a call: env.market says whether it
\* returns data, returns data the summary template cannot format, returns an error
\* payload or raises
market_call(action, env) ==
    CASE env.market = "ok" -> [source |-> Collaborator(action)]
      [] env.market = "malformed" -> [company |-> "TCS", price |-> 3500, change_percent |-> "n/a"]
      [] env.market = "error" -> ErrorPayload("Could not find data")
      [] env.market = "raise" -> Raised("connection failed")

\* the calculator call of an action; env.ill_typed: a parameter is of a type the
\* calculator cannot compare with a number, and the call raises TypeError
calculator_call(action, parameters, env) ==
    IF env.ill_typed THEN Raised("'<=' not supported between instances of 'str' and 'int'")
    ELSE CASE action = "calculate_sip" ->
                sip_returns(parameters.monthly_sip, parameters.years,
                            DictGet(parameters, "expected_return", DEFAULT_SIP_RETURN))
           [] action = "calculate_emi" ->
                emi_calculator(parameters.loan_amount,
                               DictGet(parameters, "interest_rate", DEFAULT_EMI_INTEREST),
                               parameters.tenure_years)
           [] action = "calculate_retirement" ->
                retirement_corpus(parameters.current_age, parameters.retirement_age,
                                  parameters.monthly_expense, RetirementDefaults)

\* one collaborator call: the method called and whether it raised
Called(fn, raised) == [fn |-> fn, raised |-> raised]

\* the dispatch without its else branch and its except clause: an unknown action
\* falls through and an exception leaves the call
execute_unguarded(action, parameters, env) ==
    IF action \notin KnownActions THEN [result |-> None, calls |-> <<>>]
    ELSE IF MissingKeys(action, parameters) # {}
    THEN [result |-> Raised("'" \o RequiredKeys(action)[SetMin(MissingKeys(action, parameters))] \o "'"),
          calls |-> <<>>]
    ELSE LET returned(out) ==
                 [result |-> out, calls |-> <<Called(Collaborator(action), IsRaised(out))>>]
         IN  returned(IF action \in MarketActions THEN market_call(action, env)
                      ELSE calculator_call(action, parameters, env))

\* [result, calls]: the dictionary _execute_action returns and the collaborator
\* calls it made
_execute_action(action, parameters, env) ==
    IF action \notin KnownActions
    THEN [result |-> ErrorPayload("Unknown action: " \o action), calls |-> <<>>]
    ELSE IF MissingKeys(action, parameters) # {}
    THEN LET key == RequiredKeys(action)[SetMin(MissingKeys(action, parameters))]
         IN  [result |-> ErrorPayload("Error executing " \o action \o ": '" \o key \o "'"),
              calls |-> <<>>]
    ELSE LET out == IF action \in MarketActions THEN market_call(action, env)
                    ELSE calculator_call(action, parameters, env)
         IN  [result |-> IF IsRaised(out)
                         THEN ErrorPayload("Error executing " \o action \o ": " \o out.exc)
                         ELSE out,
              calls |-> <<Called(Collaborator(action), IsRaised(out))>>]

-----------------------------------------------------------------------------
(* LLMEngine.get_response                                                  *)

\* a get_response whose error reply carries the text of the exception
get_response_echoing(action_mode, conversation) ==
    LET echo(exc) == [error |-> exc, content |-> exc]
    IN  IF IsRaised(action_mode) THEN echo(action_mode.exc)
        ELSE IF /\ action_mode.parsed \notin {None, EmptyDict}
                /\ "action" \in DOMAIN action_mode.parsed
                /\ "parameters" \in DOMAIN action_mode.parsed
        THEN action_mode.parsed
        ELSE IF IsRaised(conversation) THEN echo(conversation.exc)
        ELSE [content |-> conversation.text]

\* get_response, given what its two calls of generate do: action_mode is the
\* exception of the first call or [parsed], what _extract_json made of its text
\* (None when there is no JSON in it); conversation is the exception of the second
\* call or its [text]
get_response(action_mode, conversation) ==
    LET error_reply(exc) ==
            [error |-> exc,
             content |-> "I'm having trouble connecting to the AI model. Please check if LM Studio is running."]
    IN  IF IsRaised(action_mode) THEN error_reply(action_mode.exc)
        ELSE IF /\ action_mode.parsed \notin {None, EmptyDict}
                /\ "action" \in DOMAIN action_mode.parsed
                /\ "parameters" \in DOMAIN action_mode.parsed
        THEN action_mode.parsed
        ELSE IF IsRaised(conversation) THEN error_reply(conversation.exc)
        ELSE [content |-> conversation.text]

-----------------------------------------------------------------------------
(* QueryRouter.handle_query                                                *)

knowledge_keywords ==
    <<"what is", "explain", "difference", "how does", "why", "tell me about", "define",
      "meaning">>

\* a router that consults the retriever for every query
always_retrieve(query) == TRUE

_needs_knowledge_retrieval(query) == ContainsAny(Lower(query), knowledge_keywords)

\* the template summary (the numbers the templates print are left out), or the
\* exception of a format that does not suit the data
_fallback_summary(data, query) ==
    IF "error" \in DOMAIN data THEN [text |-> "Sorry, " \o data.error]
    ELSE IF "company" \in DOMAIN data /\ "price" \in DOMAIN data
    THEN IF "change_percent" \in DOMAIN data /\ data.change_percent = "n/a"
         THEN Raised("Unknown format code 'f' for object of type 'str'")
         ELSE [text |-> "is trading at"]
    ELSE IF "dividend_yield" \in DOMAIN data THEN [text |-> "Dividend yield"]
    ELSE IF "pe_ratio" \in DOMAIN data THEN [text |-> "P/E ratio"]
    ELSE IF "monthly_emi" \in DOMAIN data THEN [text |-> "Monthly EMI"]
    ELSE IF "maturity_amount" \in DOMAIN data THEN [text |-> "SIP maturity value"]
    ELSE [text |-> "Here's the data you requested."]

\* llm.summarize_data as the router sees it: a text, or an exception
summarize_data(data, query, env) ==
    IF env.summary = "raise" THEN Raised("summary failed") ELSE [text |-> "LLM summary"]

\* a handler that answers every error payload with type error
error_typed_response(type, text, data) ==
    [type |-> IF "error" \in DOMAIN data THEN "error" ELSE type, response |-> text, data |-> data]

Response(type, text, data) == [type |-> type, response |-> text, data |-> data]

\* [out, calls]: what a part of handle_query produced (a response, or the exception
\* that left it) and the collaborator calls made on the way
Out(out, calls) == [out |-> out, calls |-> calls]

\* handle_query, lines 491-506: an action was detected
handle_detected(detected_action, query, env) ==
    LET summarized(ex, s, summary) ==
            Out(IF IsRaised(summary) THEN summary
                ELSE Response("finance_response", summary.text, ex.result),
                ex.calls \o <<Called("llm.summarize_data", IsRaised(s))>>)
        executed(ex, s) ==
            summarized(ex, s, IF IsRaised(s) THEN _fallback_summary(ex.result, query) ELSE s)
        result(ex) == executed(ex, summarize_data(ex.result, query, env))
    IN  result(_execute_action(detected_action.action, detected_action.parameters,
                               [env EXCEPT !.ill_typed = FALSE]))

\* handle_query, lines 508-542: no action was detected
handle_fallback(query, user_id, env) ==
    LET rag == _needs_knowledge_retrieval(query)
        c1 == <<Called("profile_manager.get_context_summary", env.fault = "context")>>
        c2 == IF rag THEN c1 \o <<Called("retriever.get_context", env.fault = "rag")>> ELSE c1
        llm_response == env.llm
        c3 == c2 \o <<Called("llm.get_response", IsRaised(llm_response))>>
    IN  IF env.fault = "context" THEN Out(Raised("context failed"), c1)
        ELSE IF rag /\ env.fault = "rag" THEN Out(Raised("retrieval failed"), c2)
        ELSE IF IsRaised(llm_response)
        THEN Out(Response("error",
                          "I'm having trouble processing your query. The AI service may be unavailable.",
                          ErrorPayload(llm_response.exc)), c3)
        ELSE IF "action" \in DOMAIN llm_response /\ "parameters" \in DOMAIN llm_response
        THEN LET summarized(ex, s) ==
                     Out(IF IsRaised(s) THEN s
                         ELSE Response("finance_response", s.text, ex.result),
                         c3 \o ex.calls \o <<Called("llm.summarize_data", IsRaised(s))>>)
                 result(ex) == summarized(ex, summarize_data(ex.result, query, env))
             IN  result(_execute_action(llm_response.action, llm_response.parameters, env))
        ELSE Out(Response("conversational",
                          DictGet(llm_response, "content", "I'm not sure how to help with that."),
                          EmptyDict), c3)

\* the try block of handle_query; detection is what line 489,
\* _detect_action_with_priority(query, user_id), returned, with the cache it left
\* and the detector calls it made
handle_query_body(detection, query, user_id, cache, env) ==
    LET loads == IF detection.cache # cache
                 THEN <<Called("profile_manager.load_profile", FALSE)>> ELSE <<>>
        rest == IF detection.result # None
                THEN handle_detected(detection.result, query, env)
                ELSE handle_fallback(query, user_id, env)
    IN  [out |-> rest.out, calls |-> loads \o rest.calls, cache |-> detection.cache,
         detected |-> detection.result, tried |-> detection.tried]

\* a handler without its except clause
no_boundary(body) == body

\* the except clause of handle_query
handle_query_boundary(body) ==
    IF IsRaised(body.out)
    THEN [body EXCEPT !.out = Response("error", "An error occurred: " \o body.out.exc,
                                       ErrorPayload(body.out.exc))]
    ELSE body

\* [out, calls, cache, detected, tried]: what handle_query returns or raises, the
\* collaborator calls it made, the profile cache it leaves, what it detected and the
\* detector calls made for that
handle_query(detection, query, user_id, cache, env) ==
    handle_query_boundary(handle_query_body(detection, query, user_id, cache, env))

-----------------------------------------------------------------------------
(* MarketDataAgent: the ticker lookup                                      *)

\* what one request to the NSE autocomplete API comes to: a response with its status
\* and, for 200, its body (JSON or not), or the exception requests.get raises
NseOutcomes ==
    {[status |-> 429], [status |-> 503], [status |-> 404],
     [status |-> 200, body |-> [json |-> FALSE]],
     [status |-> 200, body |-> [json |-> TRUE, data |-> [symbols |-> <<>>]]],
     [status |-> 200, body |-> [json |-> TRUE,
                                data |-> [symbols |-> <<[symbol_info |-> "Tata Consultancy"]>>]]],
     [status |-> 200, body |-> [json |-> TRUE,
                                data |-> [symbols |-> <<[symbol |-> "TCS",
                                                         symbol_info |-> "Tata Consultancy"]>>]]],
     [raises |-> "Timeout"], [raises |-> "ConnectionError"], [raises |-> "TypeError"]}

\* a lookup that goes on to a further request whatever the last one came to
_call_nse_autocomplete_retrying(query, outcomes) ==
    [error |-> "max_retries_exceeded",
     requests |-> [i \in 1..(NSE_MAX_RETRIES + 2) |-> query],
     sleeps |-> [i \in 1..(NSE_MAX_RETRIES + 1) |-> Dec(5 * Pow2(i - 1), 10)]]

\* [company_name, ticker, error, requests, sleeps]: the triple _call_nse_autocomplete
\* returns, a null component being left out, the query of every request it made and
\* the delays it slept; outcomes[i] is what request i comes to, and a request past
\* the outcomes given finds no connection
_call_nse_autocomplete(query, outcomes) ==
    LET NSE_BASE_DELAY == Dec(5, 10)
        outcome(i) == IF i <= Len(outcomes) THEN outcomes[i] ELSE [raises |-> "ConnectionError"]
        RECURSIVE attempt_from(_, _)
        attempt_from(attempt, sleeps) ==
            LET requests == [i \in 1..(attempt + 1) |-> query]
                failed(reason) == [error |-> reason, requests |-> requests, sleeps |-> sleeps]
                retried(reason) ==
                    IF attempt < NSE_MAX_RETRIES
                    THEN attempt_from(attempt + 1,
                                      Append(sleeps, Dec(NSE_BASE_DELAY.num * Pow2(attempt),
                                                         NSE_BASE_DELAY.den)))
                    ELSE failed(reason)
                parsed(data) ==
                    IF "symbols" \notin DOMAIN data \/ Len(data.symbols) = 0
                    THEN failed("no_symbols")
                    ELSE IF DictGet(data.symbols[1], "symbol", "") = ""
                    THEN failed("missing_symbol")
                    ELSE [company_name |-> DictGet(data.symbols[1], "symbol_info",
                                                   data.symbols[1].symbol),
                          ticker |-> data.symbols[1].symbol \o ".NS",
                          requests |-> requests, sleeps |-> sleeps]
                answered(resp) ==
                    IF "raises" \in DOMAIN resp
                    THEN IF resp.raises = "Timeout" THEN retried("timeout")
                         ELSE IF resp.raises = "ConnectionError" THEN failed("request_error")
                         ELSE failed("unexpected_error")
                    ELSE IF resp.status = 429 THEN retried("rate_limited")
                    ELSE IF resp.status >= 500
                    THEN retried("server_error_" \o ToString(resp.status))
                    ELSE IF resp.status # 200
                    THEN failed("http_error_" \o ToString(resp.status))
                    ELSE IF ~resp.body.json THEN failed("invalid_json")
                    ELSE parsed(resp.body.data)
            IN  IF attempt > NSE_MAX_RETRIES
                THEN [error |-> "max_retries_exceeded",
                      requests |-> [i \in 1..attempt |-> query], sleeps |-> sleeps]
                ELSE answered(outcome(attempt + 1))
    IN  attempt_from(0, <<>>)

\* [result, symbol_cache, nse]: the pair _search_ticker returns, a null component
\* being left out, the symbol cache it leaves and what its call of the NSE API
\* returned (None when it made none); the negative cache is read and never written
_search_ticker(query, symbols, negatives, time, outcomes) ==
    LET cache_key == strip(Lower(query))
        words(ws) == <<WordB>> \o [i \in 1..(2 * Len(ws) - 1) |->
                                    IF i % 2 = 1 THEN Lit(ws[(i + 1) \div 2]) ELSE Spaces1]
                              \o <<WordB>>
        noise_patterns ==
            <<words(<<"what", "is">>), words(<<"price", "of">>), words(<<"trading", "at">>),
              words(<<"today">>), words(<<"share">>), words(<<"stock">>), words(<<"quote">>),
              words(<<"etf">>), words(<<"p/e", "ratio", "of">>),
              words(<<"dividend", "yield", "of">>), words(<<"ratio", "of">>),
              words(<<"yield", "of">>)>>
        indices ==
            <<[name |-> "nifty 50", result |-> [company_name |-> "NIFTY 50", ticker |-> "^NSEI"]],
              [name |-> "nifty", result |-> [company_name |-> "NIFTY", ticker |-> "^NSEI"]],
              [name |-> "sensex", result |-> [company_name |-> "SENSEX", ticker |-> "^BSESN"]],
              [name |-> "bank nifty",
               result |-> [company_name |-> "BANK NIFTY", ticker |-> "^NSEBANK"]],
              [name |-> "nifty bank",
               result |-> [company_name |-> "NIFTY BANK", ticker |-> "^NSEBANK"]]>>
        cached(result) == [k \in DOMAIN symbols \cup {cache_key} |->
                             IF k = cache_key THEN result ELSE symbols[k]]
        looked_up(nse) ==
            IF "ticker" \in DOMAIN nse
            THEN [result |-> [company_name |-> nse.company_name, ticker |-> nse.ticker],
                  symbol_cache |-> cached([company_name |-> nse.company_name,
                                           ticker |-> nse.ticker]),
                  nse |-> nse]
            ELSE [result |-> EmptyDict, symbol_cache |-> symbols, nse |-> nse]
        searched(query_clean) ==
            LET named == {i \in 1..Len(indices) : Contains(query_clean, indices[i].name)}
            IN  IF named # {}
                THEN [result |-> indices[SetMin(named)].result,
                      symbol_cache |-> cached(indices[SetMin(named)].result), nse |-> None]
                ELSE looked_up(_call_nse_autocomplete(query_clean, outcomes))
    IN  IF cache_key \in DOMAIN symbols
        THEN [result |-> symbols[cache_key], symbol_cache |-> symbols, nse |-> None]
        ELSE IF cache_key \in DOMAIN negatives
                /\ time - negatives[cache_key] < NEGATIVE_CACHE_EXPIRY
        THEN [result |-> EmptyDict, symbol_cache |-> symbols, nse |-> None]
        ELSE searched(strip(re_sub(noise_patterns, "", Lower(strip(query)), 1, FALSE)))

-----------------------------------------------------------------------------
(* The inputs of the model                                                 *)

\* the longest query given to the dispatcher, in phrases of the vocabulary
MaxPhrases == 2
\* the longest query given to handle_query, in phrases of the vocabulary
MaxHandledPhrases == 1
\* the clock of the agent runs from 0 to MaxClock seconds, in steps of TickSeconds
MaxClock == 3600
\* add_conversation is called at most MaxConversations times
MaxConversations == 53
TickSeconds == 1800

Users == {"guest"}

\* what the profile store may hold for a user: nothing, a profile saved by the
\* web form (app.py) or one saved by the command line (main.py, no monthly_income)
StoredProfiles ==
    {None,
     [profile |-> [age |-> 30, monthly_income |-> 50000, risk_appetite |-> "moderate"]],
     [profile |-> [age |-> 45, monthly_income |-> 400, risk_appetite |-> "conservative"]],
     [profile |-> [age |-> 25, income |-> 1000000, risk_appetite |-> "aggressive"]],
     [profile |-> [monthly_income |-> 10250]]}

\* whole queries of the test suite, and the fragments queries are put together from
Vocabulary ==
    {"P/E ratio of Infosys", "dividend yield", "stock price", "top stock",
     "best large cap funds", "Nifty BeES price", "nav",
     "SIP", "Calculate SIP 5000 for 10 years at 14%", "for 60 years",
     "of 99", "1000000", "1000001",
     "loan", "retire", "portfolio", "what is"}

RECURSIVE Phrases(_)
Phrases(n) ==
    IF n = 1 THEN Vocabulary
    ELSE Phrases(n - 1) \cup {p \o " " \o w : p \in Phrases(n - 1), w \in Vocabulary}

\* amounts, interest rates and tenures the way queries state them (the examples
\* of the specification and of the test suite among them), with amounts below and
\* above the bounds, a rate above its maximum and a tenure above its maximum
AmountPhrases ==
    {"1 lakh", "50 lakh", "30 lakh", "5 lakhs", "1 crore", "2cr", "11 crore", "2.3 lakh",
     "500000", "40000", "10k"}

\* the words of ws that are not empty, with one space between them
RECURSIVE Joined(_)
Joined(ws) ==
    IF Len(ws) = 0 THEN ""
    ELSE IF Head(ws) = "" THEN Joined(Tail(ws))
    ELSE IF Joined(Tail(ws)) = "" THEN Head(ws)
    ELSE Head(ws) \o " " \o Joined(Tail(ws))

\* EMI queries: the amount, the rate and the tenure in each order of appearance
EmiQueries ==
    UNION {{Joined(<<"EMI for", a, "loan", r, t>>),
            Joined(<<"EMI", r, t, "for", a, "loan">>),
            Joined(<<"Loan EMI", t, "for", a, r>>)} :
           a \in AmountPhrases, r \in {"", "at 8.5%", "at 8%", "at 31%"},
           t \in {"", "for 20 years", "for 35 years"}}

\* queries that state an amount to the SIP, retirement and portfolio extractors, or
\* both ages to the retirement detector
AmountQueries ==
    UNION {{"SIP of " \o a, "Retirement corpus, expense " \o a, "portfolio of " \o a} :
           a \in AmountPhrases}
    \cup {"Retirement corpus for age 22, expense 25k", "Retire at 70, age 22",
            "Retire at 75, age 22"}

\* fund queries: a category verb or none, the words of one or two categories in
\* either order, with or without "nav"
CategoryQueries ==
    {Joined(<<v, t, "funds", n>>) :
       v \in {"", "best", "show me", "recommend"},
       t \in {"large cap", "mid cap and large cap", "elss or debt", "debt or elss",
              "balanced", "hybrid small cap", "equity", "mutual", "tax saver bond mutual",
              "smallcap", "midcap equity", "aggressive hybrid"},
       n \in {"", "nav"}}

Queries == Phrases(MaxPhrases) \cup EmiQueries \cup AmountQueries \cup CategoryQueries
\* the queries given to handle_query: the phrases, questions of the knowledge base
\* with and without a detected action and an EMI calculation
HandledQueries ==
    Phrases(MaxHandledPhrases)
    \cup {"Explain mutual funds", "What is the stock price of TCS", "how to save tax",
          "EMI for 50 lakh loan at 8.5% for 20 years", "Retire at 75, age 22"}

\* what generate does when get_response calls it in action mode: it raises, or
\* its text holds no JSON, JSON without an action, or a proposed action
ActionModeGenerations ==
    {Raised("LLM generation failed: timeout"), [parsed |-> None],
     [parsed |-> [answer |-> "none"]],
     [parsed |-> [action |-> "get_stock_price", parameters |-> [query |-> "tcs"]]],
     [parsed |-> [action |-> "calculate_sip",
                  parameters |-> [monthly_sip |-> 5000, years |-> 10,
                                  expected_return |-> Dec(0, 1)]]],
     [parsed |-> [action |-> "calculate_emi", parameters |-> [loan_amount |-> 100000]]],
     [parsed |-> [action |-> "transfer_money", parameters |-> EmptyDict]]}

\* what llm.get_response may do: what LLMEngine.get_response returns, and for
\* another implementation of the collaborator an exception or a reply without content
LLMReplies ==
    {get_response(a, c) :
       a \in ActionModeGenerations,
       c \in {Raised("LLM generation failed: timeout"), [text |-> "Here is an explanation."]}}
    \cup {Raised("LLM generation failed"), EmptyDict}

\* what the collaborators do during one call: the market agent returns data, returns
\* an error payload or raises; a calculator parameter may be ill-typed; the
\* summarizer may raise; fault names the one that raises among get_context_summary
\* and get_context
Envs ==
    [market : {"ok", "malformed", "error", "raise"}, ill_typed : BOOLEAN, summary : {"ok", "raise"},
     fault : {"none", "context", "rag"}, llm : LLMReplies]

Quiet == [market |-> "ok", ill_typed |-> FALSE, summary |-> "ok", fault |-> "none", llm |-> EmptyDict]

IsActionReply(reply) ==
    ~IsRaised(reply) /\ "action" \in DOMAIN reply /\ "parameters" \in DOMAIN reply

\* the environments of an action executed directly or after detection: only the
\* executed collaborator and the summarizer are consulted
ExecutionEnvs == {e \in Envs : e.fault = "none" /\ e.llm = EmptyDict}

\* the environments of the fallback path, each collaborator that is not consulted
\* being left quiet
FallbackEnvs ==
    {e \in Envs :
       /\ e.fault = "context" => e = [Quiet EXCEPT !.fault = "context"]
       /\ ~IsActionReply(e.llm) => e.market = "ok" /\ ~e.ill_typed /\ e.summary = "ok"
       /\ IsActionReply(e.llm) =>
            /\ e.llm.action \notin MarketActions => e.market = "ok"
            /\ e.llm.action \notin CalculatorActions => ~e.ill_typed}

EnvsFor(detection) ==
    IF detection.result # None THEN {e \in ExecutionEnvs : ~e.ill_typed} ELSE FallbackEnvs

\* the requests made of _execute_action directly
FullParameters(action) ==
    CASE action \in {"get_stock_price", "get_stock_metric", "get_etf_price", "search_mutual_fund"}
           -> [query |-> "tcs"]
      [] action = "get_top_funds" -> [category |-> "large cap", limit |-> MF_TOP_FUNDS_LIMIT]
      [] action = "calculate_sip" ->
           [monthly_sip |-> 5000, years |-> 10, expected_return |-> DEFAULT_SIP_RETURN]
      [] action = "calculate_emi" ->
           [loan_amount |-> 500000, interest_rate |-> DEFAULT_EMI_INTEREST, tenure_years |-> 20]
      [] action = "calculate_retirement" ->
           [current_age |-> 30, retirement_age |-> 60, monthly_expense |-> 50000]
      [] action = "get_portfolio_recommendation" ->
           [age |-> 30, risk_appetite |-> "moderate", investment_amount |-> 100000]

\* a dictionary without its key k
Without(d, k) == [x \in DOMAIN d \ {k} |-> d[x]]

UnknownActions == {"transfer_money", ""}

ExecRequests ==
    {Action(a, FullParameters(a)) : a \in KnownActions}
    \cup {Action(a, Without(FullParameters(a), k)) :
            a \in KnownActions, k \in {"query", "category", "years", "tenure_years",
                                       "monthly_expense", "age", "limit", "expected_return"}}
    \cup {Action(a, EmptyDict) : a \in KnownActions \cup UnknownActions}
    \cup {Action("calculate_sip",
                 [monthly_sip |-> 5000, years |-> 10, expected_return |-> Dec(0, 1)]),
          Action("calculate_sip",
                 [monthly_sip |-> 5000, years |-> 60, expected_return |-> DEFAULT_SIP_RETURN]),
          Action("transfer_money", [amount |-> 100])}

\* the calls made of the calculator directly: valid arguments, and arguments that
\* break each validation rule
\* (50 years at a return of 100% are left out: the maturity amount, about 10^21
\* times the instalment, is beyond the integers of the model)
CalculatorInputs ==
    {c \in [fn : {"sip_returns"}, monthly_sip : {-100, 0, 1, 5000},
             years : {-1, 0, 1, 10, 50, 51},
             expected_return : {Dec(-1, 100), Dec(0, 1), Dec(12, 100), Dec(1, 1), Dec(11, 10)}] :
       ~(c.years = 50 /\ c.expected_return = Dec(1, 1))}
    \cup [fn : {"emi_calculator"}, loan_amount : {-1, 0, 500000, EMI_MAX_LOAN, EMI_MAX_LOAN + 1},
          interest_rate : {Dec(-1, 1), Dec(0, 1), Dec(85, 10), Dec(30, 1), Dec(301, 10)},
          tenure_years : {-1, 0, 20, 30, 31}]
    \cup [fn : {"retirement_corpus"}, current_age : {0, 30, 119, 120},
          retirement_age : {0, 30, 60, 85, 120}, monthly_expense : {-1, 0, 50000},
          options : {RetirementDefaults,
                     [RetirementDefaults EXCEPT !.inflation = Dec(11, 10)],
                     [RetirementDefaults EXCEPT !.sip_return = Dec(-1, 100)],
                     [RetirementDefaults EXCEPT !.post_ret_return = Dec(3, 2)],
                     [RetirementDefaults EXCEPT !.post_retirement_years = 51]}]

-----------------------------------------------------------------------------
(* The state machine                                                       *)

VARIABLES
    store,           \* the profile collaborator's storage: user id -> profile or None
    _profile_cache,  \* QueryRouter._profile_cache
    call,            \* the last call made on the router and its arguments, with
                     \* what the collaborators did during a handle_query
    tried,           \* the detector calls the last detection made, with their results
    detected,        \* what the last detection returned
    response,        \* what the last call returned, or the exception that left it
    calls,           \* the collaborator calls the last call made, in order
    symbol_cache,    \* MarketDataAgent.symbol_cache: cache key -> (company, ticker)
    negative_cache,  \* MarketDataAgent.negative_cache: cache key -> time of the failure
    cache,           \* MarketDataAgent.cache: cache key -> (stock data, time it was fetched)
    now              \* time.time(), in seconds since the objects were constructed

vars == <<store, _profile_cache, call, tried, detected, response, calls, symbol_cache,
          negative_cache, cache, now>>

NoCall == [op |-> "none"]

Init ==
    /\ store \in [Users -> StoredProfiles]
    /\ _profile_cache = EmptyDict
    /\ call = NoCall
    /\ tried = <<>>
    /\ detected = None
    /\ response = None
    /\ calls = <<>>
    /\ symbol_cache = EmptyDict
    /\ negative_cache = EmptyDict
    /\ cache = EmptyDict
    /\ now = 0

\* router._detect_action_with_priority(query, user_id), for a query among queries
Detect(queries) ==
    /\ call = NoCall
    /\ \E query \in queries, user_id \in Users :
         \E detection \in {_detect_action_with_priority(query, user_id, _profile_cache, store)} :
           /\ call' = [op |-> "_detect_action_with_priority", query |-> query,
                       user_id |-> user_id]
           /\ tried' = detection.tried
           /\ detected' = detection.result
           /\ response' = detection.result
           /\ calls' = IF detection.cache # _profile_cache
                       THEN <<Called("profile_manager.load_profile", FALSE)>> ELSE <<>>
           /\ _profile_cache' = detection.cache
           /\ UNCHANGED <<store, symbol_cache, negative_cache, cache, now>>

DetectAction == Detect(Queries)

\* router._execute_action(action, parameters)
ExecuteAction ==
    /\ call = NoCall
    /\ \E request \in ExecRequests, env \in ExecutionEnvs :
         \E r \in {_execute_action(request.action, request.parameters, env)} :
           /\ env.summary = "ok"
           /\ call' = [op |-> "_execute_action", action |-> request.action,
                       parameters |-> request.parameters]
           /\ response' = r.result
           /\ calls' = r.calls
           /\ UNCHANGED <<store, _profile_cache, tried, detected, symbol_cache,
                          negative_cache, cache, now>>

\* router.handle_query(query, user_id)
HandleQuery ==
    /\ call = NoCall
    /\ \E query \in HandledQueries, user_id \in Users :
         \E detection \in {_detect_action_with_priority(query, user_id, _profile_cache, store)} :
           \E env \in EnvsFor(detection) :
             \E r \in {handle_query(detection, query, user_id, _profile_cache, env)} :
               /\ call' = [op |-> "handle_query", query |-> query, user_id |-> user_id,
                           env |-> env]
               /\ tried' = r.tried
               /\ detected' = r.detected
               /\ response' = r.out
               /\ calls' = r.calls
               /\ _profile_cache' = r.cache
               /\ UNCHANGED <<store, symbol_cache, negative_cache, cache, now>>

\* FinancialCalculator.sip_returns, emi_calculator or retirement_corpus, called
\* directly
Calculate ==
    /\ call = NoCall
    /\ \E c \in CalculatorInputs :
         /\ call' = [op |-> "calculator"] @@ c
         /\ response' =
              CASE c.fn = "sip_returns" -> sip_returns(c.monthly_sip, c.years, c.expected_return)
                [] c.fn = "emi_calculator" ->
                     emi_calculator(c.loan_amount, c.interest_rate, c.tenure_years)
                [] c.fn = "retirement_corpus" ->
                     retirement_corpus(c.current_age, c.retirement_age, c.monthly_expense,
                                       c.options)
         /\ UNCHANGED <<store, _profile_cache, tried, detected, calls, symbol_cache,
                        negative_cache, cache, now>>

\* market_agent._call_nse_autocomplete(query), the API answering request after
\* request as outcomes says
CallNseAutocomplete ==
    /\ call = NoCall
    /\ \E query \in {"tcs", "tata motors"},
          outcomes \in [1..(NSE_MAX_RETRIES + 1) -> NseOutcomes] :
         /\ call' = [op |-> "_call_nse_autocomplete", query |-> query, outcomes |-> outcomes]
         /\ response' = _call_nse_autocomplete(query, outcomes)
         /\ UNCHANGED <<store, _profile_cache, tried, detected, calls, symbol_cache,
                        negative_cache, cache, now>>

\* the call returns to its caller: the router keeps its profile cache and nothing
\* else of the call
Return ==
    /\ call # NoCall
    /\ call' = NoCall
    /\ tried' = <<>>
    /\ detected' = None
    /\ response' = None
    /\ calls' = <<>>
    /\ UNCHANGED <<store, _profile_cache, symbol_cache, negative_cache, cache, now>>

Next ==
    DetectAction \/ ExecuteAction \/ HandleQuery \/ Calculate \/ CallNseAutocomplete \/ Return

Spec == Init /\ [][Next]_vars

\* profile_manager.create_profile(user_id, profile_data), called by the application
\* and not by the router: the stored profile of the user is replaced by a new one
\* with an empty history
CreateProfile ==
    /\ call = NoCall
    /\ \E user_id \in Users, created \in StoredProfiles \ {None} :
         /\ store' = [store EXCEPT ![user_id] =
                         [user_id |-> user_id, created_at |-> now,
                          profile |-> created.profile, conversation_history |-> <<>>,
                          financial_goals |-> <<>>, portfolio |-> EmptyDict]]
         /\ UNCHANGED <<_profile_cache, call, tried, detected, response, calls,
                        symbol_cache, negative_cache, cache, now>>

\* what the NSE API does request after request during one call of the agent
NseScripts ==
    LET found == [status |-> 200,
                  body |-> [json |-> TRUE,
                            data |-> [symbols |-> <<[symbol |-> "TCS",
                                                     symbol_info |-> "Tata Consultancy"]>>]]]
        no_symbols == [status |-> 200, body |-> [json |-> TRUE, data |-> [symbols |-> <<>>]]]
    IN  {<<found>>, <<no_symbols, found>>, <<[status |-> 429], no_symbols>>}

\* market_agent._search_ticker(query)
SearchTicker ==
    \E query \in {"What is TCS stock", "nifty", "stock_tata motors share price"},
       outcomes \in NseScripts :
      \E r \in {_search_ticker(query, symbol_cache, negative_cache, now, outcomes)} :
        /\ call' = [op |-> "_search_ticker", query |-> query, outcomes |-> outcomes,
                    at |-> now]
        /\ response' = r.result
        /\ calls' = IF r.nse = None THEN <<>>
                    ELSE [i \in DOMAIN r.nse.requests |->
                            [fn |-> "requests.get", q |-> r.nse.requests[i]]]
        /\ symbol_cache' = r.symbol_cache
        /\ UNCHANGED <<store, _profile_cache, tried, detected, negative_cache, cache, now>>

\* market_agent.get_stock_price(query), with the search of _search_nse_for_ticker
\* (lines 239-341) it makes, Yahoo Finance delivering a price, an empty history or
\* an exception
GetStockPrice ==
    \E query \in {"Tata Motors share price"}, outcomes \in NseScripts,
       yahoo \in {"price", "empty", "raise"} :
      LET cache_key == "stock_" \o Lower(query)
          symbol_key == strip(Lower(query))
          words(ws) == <<WordB>> \o [i \in 1..(2 * Len(ws) - 1) |->
                                      IF i % 2 = 1 THEN Lit(ws[(i + 1) \div 2]) ELSE Spaces1]
                                \o <<WordB>>
          trailing(ws) == [i \in 1..(2 * Len(ws)) |->
                             IF i % 2 = 1 THEN Spaces1 ELSE Lit(ws[i \div 2])]
                          \o <<[t |-> "eos"]>>
          noise ==
              <<words(<<"what", "is", "the">>), words(<<"what", "is">>), words(<<"get", "me">>),
                words(<<"show", "me">>), words(<<"tell", "me">>), words(<<"find">>),
                words(<<"search">>),
                trailing(<<"stock", "price">>), trailing(<<"share", "price">>),
                trailing(<<"price">>), trailing(<<"stock">>), trailing(<<"share">>),
                trailing(<<"quote">>), trailing(<<"trading", "at">>), trailing(<<"today">>)>>
          indices ==
              <<[name |-> "nifty 50", result |-> [company_name |-> "NIFTY 50", ticker |-> "^NSEI"]],
                [name |-> "nifty", result |-> [company_name |-> "NIFTY 50", ticker |-> "^NSEI"]],
                [name |-> "sensex", result |-> [company_name |-> "SENSEX", ticker |-> "^BSESN"]],
                [name |-> "bank nifty",
                 result |-> [company_name |-> "BANK NIFTY", ticker |-> "^NSEBANK"]],
                [name |-> "nifty bank",
                 result |-> [company_name |-> "BANK NIFTY", ticker |-> "^NSEBANK"]]>>
          \* the second lookup, with the first word of a query of several words
          retried(query_clean, nse1) ==
              LET spaces == {i \in 1..Len(query_clean) : IsSpace(Ch(query_clean, i))}
                  again(nse2) ==
                      IF "ticker" \in DOMAIN nse2
                      THEN [result |-> [company_name |-> nse2.company_name,
                                        ticker |-> nse2.ticker],
                            requests |-> nse1.requests \o nse2.requests, cached |-> TRUE]
                      ELSE [result |-> EmptyDict,
                            requests |-> nse1.requests \o nse2.requests, cached |-> FALSE]
              IN  IF spaces = {}
                  THEN [result |-> EmptyDict, requests |-> nse1.requests, cached |-> FALSE]
                  ELSE again(_call_nse_autocomplete(
                                 SubSeq(query_clean, 1, SetMin(spaces) - 1),
                                 SubSeq(outcomes, Len(nse1.requests) + 1, Len(outcomes))))
          looked_up(query_clean, nse1) ==
              IF "ticker" \in DOMAIN nse1
              THEN [result |-> [company_name |-> nse1.company_name, ticker |-> nse1.ticker],
                    requests |-> nse1.requests, cached |-> TRUE]
              ELSE retried(query_clean, nse1)
          cleaned(query_clean) ==
              LET named == {i \in 1..Len(indices) : Contains(query_clean, indices[i].name)}
              IN  IF named # {}
                  THEN [result |-> indices[SetMin(named)].result, requests |-> <<>>,
                        cached |-> TRUE]
                  ELSE looked_up(query_clean, _call_nse_autocomplete(query_clean, outcomes))
          lowered(query_lower) ==
              cleaned(IF Len(query_lower) < 2 THEN Lower(strip(query)) ELSE query_lower)
          \* [result, requests, cached]: what _search_nse_for_ticker returns, the
          \* requests it made and whether it wrote the result to the symbol cache
          _search_nse_for_ticker ==
              IF symbol_key \in DOMAIN symbol_cache
              THEN [result |-> symbol_cache[symbol_key], requests |-> <<>>, cached |-> FALSE]
              ELSE lowered(strip(re_sub(noise, "", Lower(strip(query)), 1, TRUE)))
          fresh == cache_key \in DOMAIN cache
                     /\ now - cache[cache_key].timestamp < STOCK_CACHE_EXPIRY
          known_missing == cache_key \in DOMAIN negative_cache
                             /\ now - negative_cache[cache_key] < NEGATIVE_CACHE_EXPIRY
          data(search) ==
              [company |-> search.result.company_name, symbol |-> search.result.ticker,
               price |-> 100, data_source |-> "Yahoo Finance (NSE)"]
      IN  /\ call' = [op |-> "get_stock_price", query |-> query, outcomes |-> outcomes,
                      yahoo |-> yahoo, at |-> now]
          /\ IF fresh
             THEN /\ response' = cache[cache_key].data
                  /\ calls' = <<>>
                  /\ UNCHANGED <<symbol_cache, negative_cache, cache>>
             ELSE IF known_missing
             THEN /\ response' =
                       [error |-> "Stock '" \o query
                                  \o "' not found. Try using the exact company name as listed on NSE."]
                  /\ calls' = <<>>
                  /\ UNCHANGED <<symbol_cache, negative_cache, cache>>
             ELSE \E search \in {_search_nse_for_ticker} :
                    /\ calls' = [i \in DOMAIN search.requests |->
                                   [fn |-> "requests.get", q |-> search.requests[i]]]
                    /\ symbol_cache' =
                         IF search.cached
                         THEN [k \in DOMAIN symbol_cache \cup {symbol_key} |->
                                 IF k = symbol_key THEN search.result ELSE symbol_cache[k]]
                         ELSE symbol_cache
                    /\ IF "ticker" \notin DOMAIN search.result
                       THEN /\ response' =
                                 [error |-> "Could not find ticker for '" \o query
                                            \o "' on NSE. Please try the exact company name (e.g., 'Reliance Industries', 'Infosys Limited')."]
                            /\ negative_cache' =
                                 [k \in DOMAIN negative_cache \cup {cache_key} |->
                                    IF k = cache_key THEN now ELSE negative_cache[k]]
                            /\ UNCHANGED cache
                       ELSE IF yahoo = "price"
                       THEN /\ response' = data(search)
                            /\ cache' = [k \in DOMAIN cache \cup {cache_key} |->
                                            IF k = cache_key
                                            THEN [data |-> data(search), timestamp |-> now]
                                            ELSE cache[k]]
                            /\ UNCHANGED negative_cache
                       ELSE /\ response' =
                                 IF yahoo = "empty"
                                 THEN [error |-> "No data available for " \o search.result.ticker]
                                 ELSE [error |-> "Error fetching data: connection reset"]
                            /\ UNCHANGED <<negative_cache, cache>>
          /\ UNCHANGED <<store, _profile_cache, tried, detected, now>>

\* time passes between two calls of the agent
Tick ==
    /\ now + TickSeconds <= MaxClock
    /\ now' = now + TickSeconds
    /\ UNCHANGED <<store, _profile_cache, call, tried, detected, response, calls,
                   symbol_cache, negative_cache, cache>>

\* the objects just constructed over an empty profile directory
FreshInit == Init /\ \A u \in Users : store[u] = None

\* a market data agent answering lookups one after another while time passes
AgentSpec == FreshInit /\ [][SearchTicker \/ GetStockPrice \/ Tick]_vars

\* profile_manager.add_conversation(user_id, question, answer), called by the
\* application a second after the call before
AddConversation ==
    /\ call = NoCall
    /\ now < MaxConversations
    /\ \E user_id \in Users, question \in {"What is SIP?"},
          answer \in {"A SIP invests a fixed amount every month."} :
         /\ now' = now + 1
         /\ call' = [op |-> "add_conversation", user_id |-> user_id, question |-> question,
                     answer |-> answer]
         /\ store' = [store EXCEPT ![user_id] =
                         add_conversation(load_profile(store, user_id), question, answer, now')]
         /\ UNCHANGED <<_profile_cache, tried, detected, response, calls, symbol_cache,
                        negative_cache, cache>>

\* the application creating profiles and recording conversations
HistorySpec == FreshInit /\ [][CreateProfile \/ AddConversation \/ Return]_vars

\* a router detecting queries over its lifetime while the application creates and
\* replaces profiles: queries that take a default from the profile, one that states
\* its amount and one that no profile matters to
LifetimeSpec ==
    Init /\ [][\/ Detect({"SIP", "retire", "portfolio", "retire portfolio",
                          "SIP of 10k", "stock price"})
              \/ Return
              \/ CreateProfile]_vars

-----------------------------------------------------------------------------
(* Properties                                                              *)

Detecting == call.op \in {"_detect_action_with_priority", "handle_query"}
Handling == call.op = "handle_query"
Executing == call.op = "_execute_action"

\* the query of the last call, as the detectors read it
LoweredQuery == Lower(call.query)

\* the numbers written in q
NumbersIn(q) ==
    {SubSeq(q, i, i + RunLen(q, i, "d", -1) - 1) :
       i \in {j \in 1..Len(q) : IsDigit(Ch(q, j)) /\ (j = 1 \/ ~IsDigit(Ch(q, j - 1)))}}

\* the dispatcher called detector d, and what d returned to it
WasTried(d) == \E i \in 1..Len(tried) : tried[i].detector = d
ResultOf(d) == tried[CHOOSE i \in 1..Len(tried) : tried[i].detector = d].result

SipQuery == Detecting /\ Contains(LoweredQuery, "sip")
SipDeclined == WasTried("_detect_sip") => ResultOf("_detect_sip") = None
NoSipAction == SipDeclined /\ (detected = None \/ detected.action # "calculate_sip")

FixedPriority ==
    <<"_detect_stock_metric", "_detect_stock_price", "_detect_etf", "_detect_mf_nav",
      "_detect_fund_category", "_detect_sip", "_detect_emi", "_detect_retirement",
      "_detect_portfolio">>

\* C1: the dispatcher calls the detectors in the fixed order stock metric, stock
\* price, ETF price, mutual-fund NAV, fund category, SIP, EMI, retirement,
\* portfolio; every detector it called before the last one declined, what it
\* returns is the result of the last one it called, and it returns no action
\* exactly when all nine were called and declined.
C1_FirstMatchInFixedOrder ==
    Detecting =>
        /\ Len(tried) \in 1..9
        /\ \A i \in 1..Len(tried) : tried[i].detector = FixedPriority[i]
        /\ \A i \in 1..(Len(tried) - 1) : tried[i].result = None
        /\ detected = tried[Len(tried)].result
        /\ (detected = None) <=> (Len(tried) = 9 /\ \A i \in 1..9 : tried[i].result = None)

\* a metric query that the ETF detector would match too is returned as a metric action
C1_HigherPriorityWins ==
    /\ call.op = "_detect_action_with_priority"
    /\ detected # None
    /\ detected.action = "get_stock_metric"
    /\ Len(tried) = 1
    /\ _detect_etf(call.query) # None

MetricPhrases == <<"p/e of", "p/e ratio", "pe of", "pe ratio", "dividend yield", "yield of">>
PriceKeywords == <<"stock", "price", "share", "trading", "quote", "market cap">>

MetricAndPrice ==
    /\ Detecting
    /\ ContainsAny(LoweredQuery, MetricPhrases)
    /\ ContainsAny(LoweredQuery, PriceKeywords)

C3_ThreeResponseShapes ==
    Handling =>
        /\ ~IsRaised(response)
        /\ DOMAIN response = {"type", "response", "data"}
        /\ response.type \in {"finance_response", "conversational", "error"}

\* a collaborator raised during the call and the caller got an error response
C3_FailureSurfacedAsError ==
    /\ Handling
    /\ ~IsRaised(response)
    /\ response.type = "error"
    /\ \E i \in 1..Len(calls) : calls[i].raised

NineActions ==
    {"get_stock_price", "get_stock_metric", "get_etf_price", "search_mutual_fund",
     "get_top_funds", "calculate_sip", "calculate_emi", "calculate_retirement",
     "get_portfolio_recommendation"}

KnownExecution == Executing /\ call.action \in NineActions
ParameterMissing == MissingKeys(call.action, call.parameters) # {}
CollaboratorRaised == \E i \in 1..Len(calls) : calls[i].raised
WrappedError ==
    /\ IsError(response)
    /\ StartsWithAt(response.error, 1, "Error executing " \o call.action \o ": ")

\* C4 as stated: when the collaborator raises or a required parameter is missing,
\* _execute_action returns the wrapped error after exactly one collaborator call.
C4_WrappedAfterOneCall ==
    KnownExecution /\ (ParameterMissing \/ CollaboratorRaised)
        => WrappedError /\ Len(calls) = 1

\* C4, amended: _execute_action never calls the collaborator more than once; when
\* the call raises it returns the wrapped error after exactly that one call, and
\* when a required parameter is missing it returns the wrapped error (the message
\* is the quoted key) without calling the collaborator at all.
C4_WrappedWithoutRetry ==
    KnownExecution =>
        /\ Len(calls) <= 1
        /\ CollaboratorRaised => WrappedError /\ Len(calls) = 1
        /\ ParameterMissing => WrappedError /\ calls = <<>>

C4_RaiseWrapped ==
    /\ KnownExecution
    /\ CollaboratorRaised
    /\ WrappedError
    /\ Len(calls) = 1

\* C5: _execute_action with an action outside the nine known ones returns
\* {error: "Unknown action: <name>"} and calls no collaborator.
C5_UnknownAction ==
    Executing /\ call.action \notin NineActions
        => response = [error |-> "Unknown action: " \o call.action] /\ calls = <<>>

C5_UnknownRejected ==
    /\ Executing
    /\ call.action = "transfer_money"
    /\ IsError(response)
    /\ calls = <<>>

\* the detector of tried[i] had its trigger in the query, read a value and declined
Triggered(d, q) ==
    CASE d = "_detect_sip" -> Contains(q, "sip")
      [] d = "_detect_emi" -> ContainsAny(q, <<"emi", "loan">>) /\ NumbersIn(q) # {}
      [] d = "_detect_retirement" -> ContainsAny(q, <<"retirement", "corpus", "retire">>)
      [] d = "_detect_portfolio" -> Contains(q, "portfolio")
      [] OTHER -> FALSE
DeclinedOnBounds(i) ==
    tried[i].result = None /\ Triggered(tried[i].detector, LoweredQuery)

\* the values of a calculation or portfolio action lie within the configured bounds
WithinBounds(a) ==
    CASE a.action = "calculate_sip" ->
           /\ SIP_MIN_AMOUNT <= a.parameters.monthly_sip
           /\ a.parameters.monthly_sip <= SIP_MAX_AMOUNT
           /\ SIP_MIN_YEARS <= a.parameters.years
           /\ a.parameters.years <= SIP_MAX_YEARS
      [] a.action = "calculate_emi" ->
           /\ EMI_MIN_LOAN <= a.parameters.loan_amount
           /\ a.parameters.loan_amount <= EMI_MAX_LOAN
           /\ DecLeq(DecOfInt(EMI_MIN_INTEREST), a.parameters.interest_rate)
           /\ DecLeq(a.parameters.interest_rate, DecOfInt(EMI_MAX_INTEREST))
           /\ EMI_MIN_TENURE <= a.parameters.tenure_years
           /\ a.parameters.tenure_years <= EMI_MAX_TENURE
      [] a.action = "calculate_retirement" ->
           /\ MIN_AGE <= a.parameters.current_age
           /\ a.parameters.current_age <= MAX_AGE
           /\ MIN_RETIREMENT_AGE <= a.parameters.retirement_age
           /\ a.parameters.retirement_age <= MAX_RETIREMENT_AGE
           /\ MIN_MONTHLY_EXPENSE <= a.parameters.monthly_expense
           /\ a.parameters.monthly_expense <= MAX_MONTHLY_EXPENSE
      [] a.action = "get_portfolio_recommendation" ->
           /\ MIN_INVESTMENT <= a.parameters.investment_amount
           /\ a.parameters.investment_amount <= MAX_INVESTMENT
      [] OTHER -> TRUE

\* handle_query went on to the language model, unless a collaborator it asks
\* before that raised
TookFallback ==
    /\ \E i \in 1..Len(calls) : calls[i].fn = "profile_manager.get_context_summary"
    /\ \/ \E i \in 1..Len(calls) : calls[i].fn = "llm.get_response"
       \/ \E i \in 1..Len(calls) :
            /\ calls[i].raised
            /\ calls[i].fn \in {"profile_manager.get_context_summary", "retriever.get_context"}

\* an error in the response comes from a collaborator that raised, from the language
\* model's reply or from the collaborator an action was executed with
ErrorOnlyFromCollaborator ==
    (response.type = "error" \/ IsError(response.data)) =>
        \E i \in 1..Len(calls) :
            \/ calls[i].raised
            \/ calls[i].fn \notin {"profile_manager.load_profile",
                                  "profile_manager.get_context_summary",
                                  "retriever.get_context", "llm.summarize_data"}

\* C6: what a detector returns is no match or an action whose values lie within
\* the configured bounds, never an error; after a SIP, EMI, retirement or
\* portfolio detector declined for its bounds the dispatcher calls the next
\* detector of the fixed order, and returns no action only after all of them;
\* handle_query then takes the language-model path, and an error in its response
\* comes from a collaborator, not from the detection.
C6_OutOfBoundsFallsThrough ==
    Detecting =>
        /\ \A i \in 1..Len(tried) :
             tried[i].result # None =>
                 /\ DOMAIN tried[i].result = {"action", "parameters"}
                 /\ WithinBounds(tried[i].result)
        /\ \A i \in 1..Len(tried) :
             DeclinedOnBounds(i) =>
                 /\ i < 9 => Len(tried) > i /\ tried[i + 1].detector = FixedPriority[i + 1]
                 /\ detected = None => Len(tried) = 9
                 /\ Handling /\ detected = None => TookFallback
                 /\ Handling => ErrorOnlyFromCollaborator

\* the SIP default of a low income is below the minimum: every detector declines
\* and the language model answers
C6_DeclinedThenAnswered ==
    /\ Handling
    /\ \E i \in 1..Len(tried) : DeclinedOnBounds(i) /\ tried[i].detector = "_detect_sip"
    /\ Len(tried) = 9
    /\ detected = None
    /\ \E i \in 1..Len(calls) : calls[i].fn = "llm.get_response"
    /\ response.type = "conversational"

\* C7 as stated: a SIP query whose stated amount is 99 gets no match from
\* _detect_sip, and no calculate_sip action.
C7_BelowMinimumDeclines ==
    SipQuery /\ NumbersIn(LoweredQuery) = {"99"} => NoSipAction

ProfileIncome ==
    LET p == store[call.user_id]
    IN  IF p # None /\ "monthly_income" \in DOMAIN p.profile THEN p.profile.monthly_income
        ELSE 0
\* 20% of it, or 5000
ClaimedDefault == IF ProfileIncome > 0 THEN (ProfileIncome * 20) \div 100 ELSE 5000

\* a SIP query without any number that reached the SIP detector
SipWithoutNumbers ==
    SipQuery /\ NumbersIn(LoweredQuery) = {} /\ WasTried("_detect_sip")

SipDefaulted ==
    /\ ResultOf("_detect_sip") # None
    /\ ResultOf("_detect_sip").action = "calculate_sip"
    /\ ResultOf("_detect_sip").parameters.monthly_sip = ClaimedDefault
    /\ ResultOf("_detect_sip").parameters.years = 10

C10_StatedRateUsed ==
    /\ SipQuery
    /\ NumbersIn(LoweredQuery) = {"5000", "10", "14"}
    /\ Contains(LoweredQuery, "10 years")
    /\ Contains(LoweredQuery, "14%")
    /\ WasTried("_detect_sip")
    => /\ ResultOf("_detect_sip") # None
       /\ ResultOf("_detect_sip").action = "calculate_sip"
       /\ ResultOf("_detect_sip").parameters.monthly_sip = 5000
       /\ ResultOf("_detect_sip").parameters.years = 10
       /\ DecEq(ResultOf("_detect_sip").parameters.expected_return, Dec(14, 100))
       /\ Handling /\ ~IsError(response.data) =>
              response.data.maturity_amount > 5000 * 12 * 10

\* The numbers a query states, as a reader takes them: each number with the word
\* that follows it, a percentage being a rate, a count of years a tenure and any
\* other number an amount in the unit named after it.
NumberStarts(q) ==
    {i \in 1..Len(q) :
       /\ IsDigit(Ch(q, i))
       /\ i > 1 => ~IsDigit(Ch(q, i - 1))
       /\ i > 2 => ~(Ch(q, i - 1) = "." /\ IsDigit(Ch(q, i - 2)))}
StatedPattern ==
    NumberGroup(1)
    \o <<Spaces0,
         Opt(WordGroup(2, <<"%", "years", "year", "yrs", "lakhs", "lakh", "crore", "cr", "k">>))>>
StatedAt(q, m) == [number |-> Group(m, q, 1), unit |-> Group(m, q, 2)]
Stated(q) == {StatedAt(q, MatchHere(StatedPattern, q, i, NoCaps)) : i \in NumberStarts(q)}
StatedRates(q) == {m \in Stated(q) : m.unit = "%"}
StatedTenures(q) == {m \in Stated(q) : m.unit \in {"years", "year", "yrs"}}
StatedAmounts(q) == Stated(q) \ (StatedRates(q) \cup StatedTenures(q))

\* the multiplier table: lakh 100000, crore 10000000, k 1000
Multiplier(unit) ==
    CASE unit \in {"lakh", "lakhs"} -> 100000
      [] unit \in {"crore", "cr"} -> 10000000
      [] unit = "k" -> 1000
      [] OTHER -> 1
\* number x multiplier, in whole rupees
TimesExactly(a, k) == (a.num \div a.den) * k + ((a.num % a.den) * k) \div a.den
Resolved(m) == TimesExactly(ParseDec(m.number), Multiplier(m.unit))
TheOne(S) == CHOOSE m \in S : TRUE

\* an EMI query that reached the EMI detector and states one amount, at most one
\* rate and at most one tenure
EmiQuery ==
    /\ Detecting
    /\ ContainsAny(LoweredQuery, <<"emi", "loan">>)
    /\ WasTried("_detect_emi")
    /\ Cardinality(StatedAmounts(LoweredQuery)) = 1
    /\ Cardinality(StatedRates(LoweredQuery)) <= 1
    /\ Cardinality(StatedTenures(LoweredQuery)) <= 1
\* the one amount the query states, resolved through the table
StatedAmount == Resolved(TheOne(StatedAmounts(LoweredQuery)))
EmiRate ==
    IF StatedRates(LoweredQuery) = {} THEN Dec(85, 10)
    ELSE ParseDec(TheOne(StatedRates(LoweredQuery)).number)
EmiTenure ==
    IF StatedTenures(LoweredQuery) = {} THEN 20
    ELSE ParseInt(TheOne(StatedTenures(LoweredQuery)).number)
EmiWithinBounds ==
    WithinBounds(Action("calculate_emi", [loan_amount |-> StatedAmount, interest_rate |-> EmiRate,
                                          tenure_years |-> EmiTenure]))
EmiAsStated ==
    /\ ResultOf("_detect_emi") # None
    /\ ResultOf("_detect_emi").action = "calculate_emi"
    /\ ResultOf("_detect_emi").parameters.loan_amount = StatedAmount
    /\ DecEq(ResultOf("_detect_emi").parameters.interest_rate, EmiRate)
    /\ ResultOf("_detect_emi").parameters.tenure_years = EmiTenure

\* C11 as stated: an EMI query that states a loan amount with an optional unit, and
\* a rate and a tenure or neither, all within bounds, is detected as calculate_emi
\* with loan_amount = the resolved amount, interest_rate = the stated rate (8.5
\* when omitted) and tenure_years = the stated tenure (20 when omitted).
C11_EmiParametersAsStated == EmiQuery /\ EmiWithinBounds => EmiAsStated

\* the query states one number, an amount, and detector d returned an action for it
OneAmountRead(d) ==
    /\ Detecting
    /\ WasTried(d)
    /\ ResultOf(d) # None
    /\ Cardinality(Stated(LoweredQuery)) = 1
    /\ Cardinality(StatedAmounts(LoweredQuery)) = 1

\* C12 as stated: the amount the EMI, the retirement-expense and the portfolio
\* extractor resolve for a number and its unit is the number times 100000 for
\* lakh/lakhs, 10000000 for crore/cr, 1000 for k and the number itself without a
\* unit; it is not negative, and it is the same in the three extractors.
C12_UnitTable ==
    /\ OneAmountRead("_detect_emi") =>
           /\ ResultOf("_detect_emi").parameters.loan_amount = StatedAmount
           /\ ResultOf("_detect_emi").parameters.loan_amount >= 0
    /\ OneAmountRead("_detect_retirement") /\ Contains(LoweredQuery, "expense") =>
           /\ ResultOf("_detect_retirement").parameters.monthly_expense = StatedAmount
           /\ ResultOf("_detect_retirement").parameters.monthly_expense >= 0
    /\ OneAmountRead("_detect_portfolio") =>
           /\ ResultOf("_detect_portfolio").parameters.investment_amount = StatedAmount
           /\ ResultOf("_detect_portfolio").parameters.investment_amount >= 0

\* a SIP query that reached the SIP detector and states one number, an amount in
\* lakh or crore
SipUnitQuery ==
    /\ SipQuery
    /\ WasTried("_detect_sip")
    /\ Cardinality(Stated(LoweredQuery)) = 1
    /\ \E m \in StatedAmounts(LoweredQuery) : m.unit \in {"lakh", "lakhs", "crore", "cr"}

\* C13 as stated: the amount of a SIP query stated in lakh or crore is resolved
\* through the multiplier table before the bounds are checked: within the bounds
\* it is the monthly_sip of the calculate_sip action, outside them there is no
\* match; the default amount is never used in its place.
C13_SipUnitResolved ==
    SipUnitQuery =>
        IF SIP_MIN_AMOUNT <= StatedAmount /\ StatedAmount <= SIP_MAX_AMOUNT
        THEN /\ ResultOf("_detect_sip") # None
             /\ ResultOf("_detect_sip").parameters.monthly_sip = StatedAmount
        ELSE ResultOf("_detect_sip") = None

\* an EMI query that states an amount in whole units, a rate and a tenure, all
\* within bounds
EmiAllStated ==
    /\ EmiQuery
    /\ ~Contains(TheOne(StatedAmounts(LoweredQuery)).number, ".")
    /\ StatedRates(LoweredQuery) # {}
    /\ StatedTenures(LoweredQuery) # {}
    /\ EmiWithinBounds

\* C14 as stated: in an EMI query that states a loan amount (a whole number), an
\* interest percentage and a year count, in whatever order, the loan amount of the detected
\* action is the stated amount, the interest rate the percentage and the tenure
\* the year count.
C14_EachFieldOwnPattern == EmiAllStated => EmiAsStated

Calculating == call.op = "calculator"

\* the arguments of the last calculator call break one of the validation rules
OutsideUnit(x) == DecLess(x, DecOfInt(0)) \/ DecLess(DecOfInt(1), x)
BreaksRule ==
    CASE call.fn = "sip_returns" ->
           \/ call.monthly_sip <= 0
           \/ call.years <= 0
           \/ call.years > SIP_MAX_YEARS
           \/ OutsideUnit(call.expected_return)
      [] call.fn = "emi_calculator" ->
           \/ call.loan_amount <= 0
           \/ call.loan_amount > EMI_MAX_LOAN
           \/ call.tenure_years <= 0
           \/ call.tenure_years > EMI_MAX_TENURE
           \/ DecLeq(call.interest_rate, DecOfInt(0))
           \/ DecLess(DecOfInt(EMI_MAX_INTEREST), call.interest_rate)
      [] call.fn = "retirement_corpus" ->
           \/ call.monthly_expense <= 0
           \/ call.current_age <= 0 \/ call.current_age >= 120
           \/ call.retirement_age <= 0 \/ call.retirement_age >= 120
           \/ call.retirement_age <= call.current_age
           \/ call.retirement_age - call.current_age > 50
           \/ call.options.post_retirement_years > 50
           \/ OutsideUnit(call.options.inflation)
           \/ OutsideUnit(call.options.sip_return)
           \/ OutsideUnit(call.options.post_ret_return)

\* C15: a calculator called with arguments that break a validation rule returns a
\* mapping whose only key is error, and does not raise; no result of a calculator
\* has the error key together with another key.
C15_ValidationErrors ==
    Calculating =>
        /\ BreaksRule => DOMAIN response = {"error"}
        /\ "error" \in DOMAIN response => DOMAIN response = {"error"}

\* a loan one rupee above the ceiling is refused by emi_calculator
C15_LoanAboveCeiling ==
    /\ Calculating
    /\ call.fn = "emi_calculator"
    /\ call.loan_amount = EMI_MAX_LOAN + 1
    /\ call.interest_rate = Dec(85, 10)
    /\ call.tenure_years = 20
    /\ response = [error |-> "Loan amount cannot exceed 100,000,000"]

\* C16 as stated: sip_returns called with P > 0, 0 < Y <= 50 and 0 <= r <= 1, r = 0
\* included, returns a success payload, without an error key and without raising,
\* with total_invested = P * 12 * Y and maturity_amount = total_invested + gains
\* within one unit.
C16_SipValidSucceeds ==
    /\ Calculating
    /\ call.fn = "sip_returns"
    /\ call.monthly_sip > 0
    /\ 0 < call.years /\ call.years <= SIP_MAX_YEARS
    /\ ~OutsideUnit(call.expected_return)
    => /\ ~IsRaised(response)
       /\ ~IsError(response)
       /\ response.total_invested = call.monthly_sip * 12 * call.years
       /\ response.maturity_amount - (response.total_invested + response.gains) \in -1..1

\* the positions in calls of the calls of fn
CallsOf(fn) == {i \in 1..Len(calls) : calls[i].fn = fn}
TriggerPhrases ==
    <<"what is", "explain", "difference", "how does", "why", "tell me about", "define",
      "meaning">>

ApologyTexts ==
    {"I'm having trouble processing your query. The AI service may be unavailable.",
     "I'm having trouble connecting to the AI model. Please check if LM Studio is running."}

\* handle_query asked get_response, which raised or returned an error reply
LLMFailed ==
    /\ Handling
    /\ CallsOf("llm.get_response") # {}
    /\ IsRaised(call.env.llm) \/ "error" \in DOMAIN call.env.llm

\* C18: on the fallback path, when get_response raises or returns an error reply
\* because generation failed, handle_query returns a response (no exception leaves
\* it) whose text is a fixed apology: the router's own text with type error when
\* get_response raised, the engine's text with type conversational when it returned
\* an error reply.
C18_LLMFailureApologises ==
    LLMFailed =>
        /\ ~IsRaised(response)
        /\ response.response \in ApologyTexts
        /\ IsRaised(call.env.llm) =>
              /\ response.type = "error"
              /\ response.data = ErrorPayload(call.env.llm.exc)
        /\ ~IsRaised(call.env.llm) =>
              /\ response.type = "conversational"
              /\ response.response = call.env.llm.content

\* generation failed inside get_response, and the user reads the engine's apology
C18_ErrorReplyApologised ==
    /\ LLMFailed
    /\ ~IsRaised(call.env.llm)
    /\ call.env.llm.error = "LLM generation failed: timeout"
    /\ response.type = "conversational"
    /\ response.response \in ApologyTexts

\* get_response returned a reply, which proposes an action or does not
Replied == Handling /\ CallsOf("llm.get_response") # {} /\ ~IsRaised(call.env.llm)
ActionReplied == Replied /\ IsActionReply(call.env.llm)

\* what _execute_action returns for the action the reply proposes
ProposedResult ==
    _execute_action(call.env.llm.action, call.env.llm.parameters, call.env).result

\* C19: on the fallback path a reply with both action and parameters is executed by
\* _execute_action and returned as a finance_response whose data is the executor's
\* result (the Unknown action payload for an action that is not one of the nine);
\* any other reply is returned as a conversational response with the reply's content
\* as its text and empty data.
C19_ReplyExecutedOrVerbatim ==
    /\ ActionReplied =>
          /\ ~IsRaised(response)
          /\ response.type = "finance_response"
          /\ response.data = ProposedResult
          /\ call.env.llm.action \notin NineActions =>
                response.data = [error |-> "Unknown action: " \o call.env.llm.action]
    /\ Replied /\ ~ActionReplied =>
          /\ response.type = "conversational"
          /\ response.data = EmptyDict
          /\ "content" \in DOMAIN call.env.llm => response.response = call.env.llm.content

LoadsOfProfile == CallsOf("profile_manager.load_profile")

\* C20 as stated: detection and query handling only read the profile cache; no step
\* adds, replaces or changes an entry, and the stored profile is never modified.
C20_CacheOnlyRead == [][_profile_cache' = _profile_cache /\ store' = store]_vars

\* C20, amended: no step of the router modifies the stored profile or replaces,
\* changes or removes an entry of the cache; the only write is _get_cached_profile
\* adding the entry of the calling user on a miss, holding what load_profile
\* returned ({} for None), after one call of load_profile; on a hit load_profile is
\* not called.
C20_CacheFilledOnce ==
    [][/\ store' = store
       /\ \A u \in DOMAIN _profile_cache :
            u \in DOMAIN _profile_cache' /\ _profile_cache'[u] = _profile_cache[u]
       /\ \A u \in DOMAIN _profile_cache' \ DOMAIN _profile_cache :
            /\ call'.op \in {"_detect_action_with_priority", "handle_query"}
            /\ u = call'.user_id
            /\ _profile_cache'[u] = IF store[u] # None THEN store[u] ELSE EmptyDict
            /\ Len(calls') >= 1 /\ calls'[1] = Called("profile_manager.load_profile", FALSE)
       /\ _profile_cache' = _profile_cache =>
            \A i \in 1..Len(calls') : calls'[i].fn # "profile_manager.load_profile"]_vars

\* a query without an amount made _detect_sip load the profile of a user nobody
\* stored, and the cache now holds an empty entry for that user
C20_EntryAdded ==
    /\ Detecting
    /\ WasTried("_detect_sip")
    /\ LoadsOfProfile # {}
    /\ store[call.user_id] = None
    /\ call.user_id \in DOMAIN _profile_cache
    /\ _profile_cache[call.user_id] = EmptyDict

\* the stored profile of the caller ({} without one) and what it states
CallerProfile ==
    LET p == store[call.user_id] IN IF p # None THEN p.profile ELSE EmptyDict
SeventyPercent ==
    IF ProfileIncome > 0 THEN (ProfileIncome * 7) \div 10 ELSE 50000

\* a retirement query, and a portfolio query, without any number that reached
\* its detector
RetirementWithoutNumbers ==
    /\ Detecting
    /\ ContainsAny(LoweredQuery, <<"retirement", "corpus", "retire">>)
    /\ NumbersIn(LoweredQuery) = {}
    /\ WasTried("_detect_retirement")
PortfolioWithoutNumbers ==
    /\ Detecting
    /\ Contains(LoweredQuery, "portfolio")
    /\ NumbersIn(LoweredQuery) = {}
    /\ WasTried("_detect_portfolio")

\* C21: a retirement query that states no age and no expense is detected as
\* calculate_retirement with the profile's age (30 without one), retirement age 60
\* and 70% of the profile's monthly income (50000 without a positive income); a
\* portfolio query that states no amount gets investment_amount 100000 with the
\* profile's age and risk appetite (30 and moderate without them).
C21_ProfileDefaults ==
    /\ RetirementWithoutNumbers =>
          ResultOf("_detect_retirement") =
              Action("calculate_retirement",
                     [current_age |-> DictGet(CallerProfile, "age", 30),
                      retirement_age |-> 60,
                      monthly_expense |-> SeventyPercent])
    /\ PortfolioWithoutNumbers =>
          ResultOf("_detect_portfolio") =
              Action("get_portfolio_recommendation",
                     [age |-> DictGet(CallerProfile, "age", 30),
                      risk_appetite |-> DictGet(CallerProfile, "risk_appetite", "moderate"),
                      investment_amount |-> 100000])

\* the keywords of mutual funds, NAV, SIP, EMI, portfolios, ETFs and metrics
ExcludedFromPrice ==
    <<"mutual fund", "fund", "nav", "sip", "emi", "portfolio", "etf", "bees", "p/e",
      "pe ratio", "dividend yield">>
EtfKeywords == <<"etf", "bees", "index fund">>

CategoryPriority ==
    << [category |-> "large cap", words |-> <<"large cap", "largecap">>],
       [category |-> "mid cap", words |-> <<"mid cap", "midcap">>],
       [category |-> "small cap", words |-> <<"small cap", "smallcap">>],
       [category |-> "elss", words |-> <<"elss", "tax saver">>],
       [category |-> "debt", words |-> <<"debt", "bond">>],
       [category |-> "hybrid", words |-> <<"hybrid", "balanced">>] >>
Named(q) == {i \in 1..Len(CategoryPriority) : ContainsAny(q, CategoryPriority[i].words)}
FirstNamed(q) == IF Named(q) = {} THEN "equity" ELSE CategoryPriority[SetMin(Named(q))].category
SevenCategories == {CategoryPriority[i].category : i \in 1..Len(CategoryPriority)} \cup {"equity"}

\* the fund-category detector was called with a query that has a category verb and
\* a fund-type noun
CategoryQuery ==
    /\ Detecting
    /\ WasTried("_detect_fund_category")
    /\ ContainsAny(LoweredQuery, <<"best", "top", "good", "show", "recommend">>)
    /\ ContainsAny(LoweredQuery, <<"large cap", "mid cap", "small cap", "elss", "equity",
                                   "debt", "hybrid", "mutual fund", "balanced">>)

\* C23: a query with a category verb and a fund-type noun that reaches the
\* fund-category detector yields get_top_funds with limit MF_TOP_FUNDS_LIMIT and the
\* first category, in the order large cap, mid cap, small cap, elss, debt, hybrid,
\* that the query names (equity when it names none); every get_top_funds action
\* carries one of these seven categories; a query with "nav" and one of best, top,
\* good, recommend is never classified as search_mutual_fund.
C23_CategoryByPriority ==
    /\ CategoryQuery =>
          detected = Action("get_top_funds",
                            [category |-> FirstNamed(LoweredQuery), limit |-> MF_TOP_FUNDS_LIMIT])
    /\ Detecting /\ detected # None /\ detected.action = "get_top_funds" =>
          detected.parameters.category \in SevenCategories
    /\ Detecting /\ Contains(LoweredQuery, "nav")
                 /\ ContainsAny(LoweredQuery, <<"best", "top", "good", "recommend">>)
          => detected = None \/ detected.action # "search_mutual_fund"

\* a query that names debt before elss is answered with elss, the earlier of the
\* two in the order, although it also asks for a nav
C23_EarlierCategoryWins ==
    /\ CategoryQuery
    /\ Contains(LoweredQuery, "debt or elss") /\ Contains(LoweredQuery, "nav")
    /\ detected.parameters.category = "elss"

\* handle_query executed an action and the summarizer raised
SummarizerRaised ==
    /\ Handling
    /\ \E i \in CallsOf("llm.summarize_data") : calls[i].raised

\* what _execute_action returned for the detected or the proposed action
ExecutedResult ==
    IF detected # None
    THEN _execute_action(detected.action, detected.parameters,
                         [call.env EXCEPT !.ill_typed = FALSE]).result
    ELSE ProposedResult

\* C24: whenever an action was executed, detected or proposed by the language
\* model, and the summarizer raises, the response is a finance_response whose text
\* is the fallback template summary and whose data is the executor's result.
C24_SummaryFailureDegrades ==
    SummarizerRaised =>
        /\ ~IsRaised(response)
        /\ response.type = "finance_response"
        /\ response.data = ExecutedResult
        /\ response.response = _fallback_summary(ExecutedResult, call.query).text

\* the first rule of its calculator that the detected calculator action breaks, or ""
DetectedInvalid ==
    LET p == detected.parameters
    IN  CASE detected.action = "calculate_sip" ->
               sip_validation(p.monthly_sip, p.years, p.expected_return)
          [] detected.action = "calculate_emi" ->
               emi_validation(p.loan_amount, p.interest_rate, p.tenure_years)
          [] detected.action = "calculate_retirement" ->
               retirement_validation(p.current_age, p.retirement_age, p.monthly_expense,
                                     RetirementDefaults)

\* C25: every calculate_sip, calculate_emi and calculate_retirement action a
\* detector emits passes the validation of its calculator, and handle_query never
\* answers a detected calculator action with an error payload.
C25_DetectionImpliesCalculation ==
    Detecting /\ detected # None /\ detected.action \in CalculatorActions =>
        /\ DetectedInvalid = ""
        /\ Handling /\ ~IsRaised(response) => ~IsError(response.data)

\* the step is a detection for a user the router holds a snapshot of
DetectsWithSnapshot ==
    /\ call = NoCall
    /\ call'.op = "_detect_action_with_priority"
    /\ call'.user_id \in DOMAIN _profile_cache

ExecutionFailed ==
    /\ Handling
    /\ detected # None \/ ActionReplied
    /\ IsError(ExecutedResult)

\* an exception left the try block of handle_query or the get_response call
HandlerRaised ==
    \E i \in 1..Len(calls) :
        /\ calls[i].raised
        /\ calls[i].fn \in {"profile_manager.get_context_summary", "retriever.get_context",
                            "llm.get_response", "llm.summarize_data"}

\* the response to a failed execution: a finance_response carrying the error payload
FailureAnswered ==
    /\ ~IsRaised(response)
    /\ response.type = "finance_response"
    /\ IsError(response.data)

Looking == call.op = "_call_nse_autocomplete"

\* request i of the call was followed by another request
Retried(i) == i < Len(response.requests)

\* request i came to a 429 response, a 5xx response or a timeout
Retryable(i) ==
    \/ "raises" \in DOMAIN call.outcomes[i] /\ call.outcomes[i].raises = "Timeout"
    \/ "status" \in DOMAIN call.outcomes[i]
         /\ (call.outcomes[i].status = 429 \/ call.outcomes[i].status >= 500)

\* C28: _call_nse_autocomplete makes at least one and at most NSE_MAX_RETRIES + 1 = 3
\* requests; it makes a further request exactly after a 429 response, a 5xx response
\* or a timeout that was not the last allowed attempt, having slept 0.5 * 2^attempt
\* seconds (0.5, then 1), and sleeps at no other time; what it returns is a triple
\* whose ticker is non-null exactly when its error is null.
C28_BoundedRetries ==
    Looking =>
        /\ Len(response.requests) \in 1..(NSE_MAX_RETRIES + 1)
        /\ NSE_MAX_RETRIES + 1 = 3
        /\ \A i \in 1..Len(response.requests) :
              Retried(i) <=> Retryable(i) /\ i <= NSE_MAX_RETRIES
        /\ Len(response.sleeps) = Len(response.requests) - 1
        /\ \A i \in 1..Len(response.sleeps) :
              DecEq(response.sleeps[i], Dec(5 * Pow2(i - 1), 10))
        /\ ("ticker" \in DOMAIN response) # ("error" \in DOMAIN response)
        /\ "company_name" \in DOMAIN response => "ticker" \in DOMAIN response

\* two retries, after a rate limit and after a timeout, and the third request found
\* the ticker
C28_FoundOnThirdRequest ==
    /\ Looking
    /\ call.outcomes[1] = [status |-> 429]
    /\ call.outcomes[2] = [raises |-> "Timeout"]
    /\ Len(response.requests) = 3
    /\ response.sleeps = <<Dec(5, 10), Dec(10, 10)>>
    /\ "ticker" \in DOMAIN response /\ response.ticker = "TCS.NS"

\* the last call was a ticker lookup that found nothing
LookupFailed == call.op = "_search_ticker" /\ response = EmptyDict

\* the step is a further _search_ticker for the query of the last call, made less
\* than NEGATIVE_CACHE_EXPIRY seconds after it
LookupRepeated ==
    /\ call' # call
    /\ call'.op = "_search_ticker"
    /\ call'.query = call.query
    /\ call'.at - call.at < NEGATIVE_CACHE_EXPIRY

\* C29: after a lookup for a query has failed, a repeated _search_ticker for the
\* same query within NEGATIVE_CACHE_EXPIRY seconds returns (None, None) and makes no
\* request to the NSE API.
C29_FailedLookupNotRepeated ==
    [][LookupFailed /\ LookupRepeated => response' = EmptyDict /\ calls' = <<>>]_vars

\* the stored conversation history of a user who has a profile
HistoryOf(u) == store[u].conversation_history

\* the time of the oldest entry kept: the first after the profile was created, or
\* the fiftieth from the last
OldestKept(u) ==
    IF store[u].created_at > now - 50 THEN store[u].created_at + 1 ELSE now - 49

\* the step is an add_conversation for a user who has no stored profile
AddedWithoutProfile ==
    call'.op = "add_conversation" /\ call = NoCall /\ store[call'.user_id] = None

\* C30: the stored conversation history of a user with a profile has at most 50
\* entries, which are the entries of the last calls of add_conversation since the
\* profile was created, in the order of the calls; add_conversation for a user
\* without a stored profile leaves the store as it was, so no profile is created.
C30_LastFiftyKept ==
    /\ [](\A u \in Users : store[u] # None =>
            /\ Len(HistoryOf(u)) <= 50
            /\ Len(HistoryOf(u)) = now - OldestKept(u) + 1
            /\ \A i \in 1..Len(HistoryOf(u)) :
                  HistoryOf(u)[i].timestamp = OldestKept(u) + i - 1)
    /\ [][AddedWithoutProfile => store' = store]_vars

\* more than 50 conversations were added to a profile and the oldest were dropped
C30_OldestDropped ==
    /\ call.op = "add_conversation"
    /\ store[call.user_id] # None
    /\ Len(HistoryOf(call.user_id)) = 50
    /\ HistoryOf(call.user_id)[1].timestamp > store[call.user_id].created_at + 1
    /\ HistoryOf(call.user_id)[50].timestamp = now
====
